---- MODULE Spec2Model ----
(***************************************************************************)
(* A model of CMakeServerDriver (src/src/drivers/cmakeServerDriver.ts).    *)
(*                                                                         *)
(* Every async method of the driver is a task whose position (pc) moves    *)
(* from one `await` to the next; the code between two awaits is one atomic *)
(* step, as on the JavaScript event loop.  A promise is a reference value  *)
(* (Ref): settled with a client / null / an error, or pending on the task  *)
(* that will settle it.  Continuations of settled promises are microtasks  *)
(* and run before the event loop delivers the next I/O event (a server     *)
(* reply, the end of a client start or shutdown).                          *)
(***************************************************************************)
EXTENDS Integers, Sequences, FiniteSets, TLC

\* ------------------------------------------------------------------ bounds
MaxOps     == 3   \* driver operations in flight at the same time
MaxCalls   == 2   \* driver operations called in one behaviour of Spec
MaxKitCalls == 3  \* driver operations called in one behaviour of SpecKit
MaxSeqCalls == 3  \* driver operations called in one behaviour of SpecSeq
MaxStopCalls == 3 \* driver operations called in one behaviour of SpecStop
MaxProms   == 2   \* pending client promises (_cmsClient values) at a time
MaxClients == 3   \* server clients created in one behaviour
MaxGen     == 2   \* successful configure requests in one behaviour
MaxTouch   == 1   \* changes to tracked files in one behaviour
MaxMtime   == 2   \* modification times of a file: 0 is "absent"
MaxTargets == 3   \* targets of a code model drawn for the target views
MaxExpCalls == 3  \* doRefreshExpansions calls in one behaviour of SpecExp
MaxLiveCalls == 2 \* driver operations called in one behaviour of SpecLive before the last

OpIds     == 1..MaxOps
PromIds   == 1..MaxProms
ClientIds == 1..MaxClients

\* ------------------------------------------------- the server's project data
\* What the external cmake server reports once it has configured: the
\* cmakeInputs reply, the cache reply and the codemodel reply.  The first
\* project is the end-to-end fixture of the specification.
AppTarget ==
    [name |-> "app", type |-> "EXECUTABLE", artifacts |-> <<"/build/app">>,
     linkLanguageFlags |-> "-O2",
     fileGroups |-> << [language |-> "CXX", compileFlags |-> "-g"],
                       [language |-> "C",   compileFlags |-> ""] >>]

LibTarget ==
    [name |-> "lib", type |-> "STATIC_LIBRARY", artifacts |-> <<>>,
     linkLanguageFlags |-> "",
     fileGroups |-> << [language |-> "C", compileFlags |-> ""] >>]

ServerProjects ==
    << [inputs |-> <<"CMakeLists.txt", "extra.cmake">>,
        cache  |-> << [key |-> "FOO", value |-> "1", type |-> "STRING"],
                      [key |-> "CMAKE_GENERATOR", value |-> "Ninja", type |-> "INTERNAL"] >>,
        codemodel |-> [configurations |-> <<
            [name |-> "Debug", projects |-> <<
                [name |-> "p", hasInstallRule |-> FALSE,
                 targets |-> <<AppTarget, LibTarget>>] >>] >>]],
       [inputs |-> <<>>,
        cache  |-> << [key |-> "FOO", value |-> "2", type |-> "BOOL"],
                      [key |-> "BAR", value |-> "x", type |-> "WEIRD"],
                      [key |-> "FOO", value |-> "3", type |-> "PATH"] >>,
        codemodel |-> [configurations |-> <<>>]] >>

Fixtures == 1..Len(ServerProjects)

\* The server code models the target views are computed for: one
\* configuration "Debug" whose targets, up to MaxTargets of them, are split
\* over two projects.  AppCopy is the app target with an artifact path that
\* is not normalized, AppUtility a target of the same name and another type.
AppCopy    == [AppTarget EXCEPT !.artifacts = <<"/build/./app">>]
AppUtility == [name |-> "app", type |-> "UTILITY", artifacts |-> <<>>,
               linkLanguageFlags |-> "", fileGroups |-> <<>>]
TargetInputs == {AppTarget, LibTarget, AppCopy, AppUtility}

TargetLists == UNION {[1..n -> TargetInputs] : n \in 0..MaxTargets}

TargetModels ==
    UNION {
      {[configurations |-> <<
          [name |-> "Debug", projects |-> <<
              [name |-> "p", hasInstallRule |-> h, targets |-> SubSeq(ts, 1, k)],
              [name |-> "q", hasInstallRule |-> FALSE,
               targets |-> SubSeq(ts, k + 1, Len(ts))] >>] >>] :
          h \in BOOLEAN, k \in 0..Len(ts)} :
      ts \in TargetLists}

Paths    == {"CMakeLists.txt", "extra.cmake"}

\* ------------------------------------------------------- promise references
\* t = "ok": resolved with client v (0 is null); t = "err": rejected with e;
\* t = "pend": pending on client promise v; t = "op": pending on operation v.
Resolved(c) == [t |-> "ok",   v |-> c, e |-> "none"]
Rejected(e) == [t |-> "err",  v |-> 0, e |-> e]
PendingOn(p) == [t |-> "pend", v |-> p, e |-> "none"]
PendingOp(o) == [t |-> "op",   v |-> o, e |-> "none"]
Settled(r)  == r.t \in {"ok", "err"}

\* ------------------------------------------------------------ Dirty Tracker
\* InputFileSet.create: the mtime of every given path, 0 for a missing file.
InputFileSetCreate(paths, fsys) ==
    [i \in 1..Len(paths) |-> [filePath |-> paths[i], mtime |-> fsys[paths[i]]]]

\* InputFileSet.createEmpty
InputFileSetCreateEmpty == <<>>

\* InputFileSet.checkOutOfDate: some recorded file's mtime differs now.
checkOutOfDate(inputFiles, fsys) ==
    \E i \in 1..Len(inputFiles) : fsys[inputFiles[i].filePath] # inputFiles[i].mtime

\* ------------------------------------------------------------- Cache Model
\* entry_map of _refreshPostConfigure: server type tag -> api.CacheEntryType
entry_map(tag) ==
    CASE tag = "BOOL"          -> "Bool"
      [] tag = "STRING"        -> "String"
      [] tag = "PATH"          -> "Path"
      [] tag = "FILEPATH"      -> "FilePath"
      [] tag = "INTERNAL"      -> "Internal"
      [] tag = "UNINITIALIZED" -> "Uninitialized"
      [] tag = "STATIC"        -> "Static"
      [] OTHER                 -> "undefined"

\* Map.set(key, entry) on a map kept as a sequence of entries in insertion
\* order: an existing key keeps its place and takes the new entry.
MapSet(acc, entry) ==
    IF \E i \in 1..Len(acc) : acc[i].key = entry.key
    THEN [i \in 1..Len(acc) |-> IF acc[i].key = entry.key THEN entry ELSE acc[i]]
    ELSE Append(acc, entry)

\* cacheReducer as it would be if a repeated key kept its first entry
cacheReducer_keepFirst(acc, el) ==
    IF entry_map(el.type) = "undefined" \/ \E i \in 1..Len(acc) : acc[i].key = el.key
    THEN acc
    ELSE Append(acc, [key |-> el.key, value |-> el.value, type |-> entry_map(el.type)])

\* cacheReducer as it would be if an entry of an unknown tag were kept as a
\* String entry
cacheReducer_coerce(acc, el) ==
    MapSet(acc, [key |-> el.key, value |-> el.value,
                 type |-> IF entry_map(el.type) = "undefined" THEN "String"
                          ELSE entry_map(el.type)])

\* One step of the reduce callback: an unknown tag leaves acc as it is.
cacheReducer(acc, el) ==
    IF entry_map(el.type) = "undefined"
    THEN acc
    ELSE MapSet(acc, [key |-> el.key, value |-> el.value, type |-> entry_map(el.type)])

RECURSIVE cacheReduce(_, _)
cacheReduce(acc, raw) ==
    IF raw = <<>> THEN acc
    ELSE cacheReduce(cacheReducer(acc, Head(raw)), Tail(raw))

\* clcache.cache.reduce(..., new Map()): the new _cacheEntries
cacheFromReply(raw) == cacheReduce(<<>>, raw)

\* The rollbar.error calls of the reduce: one for each entry of an unknown
\* tag, in the order of the reply, with the tag it names.
RECURSIVE cacheErrors(_)
cacheErrors(raw) ==
    IF raw = <<>> THEN <<>>
    ELSE (IF entry_map(Head(raw).type) = "undefined" THEN <<Head(raw).type>> ELSE <<>>)
         \o cacheErrors(Tail(raw))

\* ---------------------------------------------------- Code Model Translator
\* convertFileGroup as it would be if the link-language flags of the target
\* came before the compile flags of the group
convertFileGroup_linkFirst(group, linkLanguageFlags) ==
    [language |-> group.language,
     compileCommandFragments |->
        IF linkLanguageFlags # "" THEN <<linkLanguageFlags>>
        ELSE IF group.compileFlags # "" THEN <<group.compileFlags>>
        ELSE <<>>]

\* The file group of the translation (lines 96-104); a flags value that is
\* undefined or the empty string is "".
convertFileGroup(group, linkLanguageFlags) ==
    [language |-> group.language,
     compileCommandFragments |->
        IF group.compileFlags # "" THEN <<group.compileFlags>>
        ELSE IF linkLanguageFlags # "" THEN <<linkLanguageFlags>>
        ELSE <<>>]

convertTarget(target) ==
    [name |-> target.name, type |-> target.type, artifacts |-> target.artifacts,
     fileGroups |-> [i \in 1..Len(target.fileGroups) |->
                        convertFileGroup(target.fileGroups[i], target.linkLanguageFlags)]]

convertProject(project) ==
    [name |-> project.name, hasInstallRule |-> project.hasInstallRule,
     targets |-> [i \in 1..Len(project.targets) |-> convertTarget(project.targets[i])]]

convertConfiguration(config) ==
    [name |-> config.name,
     projects |-> [i \in 1..Len(config.projects) |-> convertProject(config.projects[i])]]

\* convertServerCodeModel of a non-null server code model
convertServerCodeModel(serverCodeModel) ==
    [configurations |->
        [i \in 1..Len(serverCodeModel.configurations) |->
            convertConfiguration(serverCodeModel.configurations[i])]]

\* --------------------------------------------------------- the target views
\* this.currentBuildType and this.allTargetName of the driver's base class
BuildTypes    == {"Debug", "Release"}
allTargetName == "all"

\* path.normalize on the artifact paths of the server data: "." segments go
normalize(p) ==
    CASE p = "/build/./app" -> "/build/app"
      [] OTHER              -> p

\* The RichTarget made of a target of the code model (lines 276-283)
richTarget(t) ==
    [type |-> "rich", name |-> t.name,
     filepath |-> IF Len(t.artifacts) > 0 THEN normalize(t.artifacts[1])
                  ELSE "Utility target",
     targetType |-> t.type]

\* build_config.projects.reduce((acc, project) => acc.concat(...), acc)
RECURSIVE concatProjectTargets(_, _)
concatProjectTargets(acc, projects) ==
    IF projects = <<>> THEN acc
    ELSE concatProjectTargets(
            acc \o [i \in 1..Len(Head(projects).targets) |-> richTarget(Head(projects).targets[i])],
            Tail(projects))

\* The meta-targets of a build configuration: "build all", and "install"
\* when some project has an install rule
metaTargets(build_config) ==
    << [type |-> "rich", name |-> allTargetName,
        filepath |-> "A special target to build all available targets",
        targetType |-> "META"] >>
    \o (IF \E i \in 1..Len(build_config.projects) : build_config.projects[i].hasInstallRule
        THEN << [type |-> "rich", name |-> "install",
                 filepath |-> "A special target to install all available targets",
                 targetType |-> "META"] >>
        ELSE <<>>)

\* get targets, of the code model cm (a record with isNull and content) and
\* the current build type
targets(cm, currentBuildType) ==
    IF cm.isNull THEN <<>>
    ELSE LET confs == cm.content.configurations
             found == {i \in 1..Len(confs) : confs[i].name = currentBuildType}
         IN
         IF found = {} THEN <<>>
         ELSE LET build_config == confs[CHOOSE i \in found : \A j \in found : i <= j]
              IN concatProjectTargets(metaTargets(build_config), build_config.projects)

\* targetReducer as it would be if it compared the names only
targetReducer_byName(set, t) ==
    IF \E i \in 1..Len(set) : t.name = set[i].name
    THEN set
    ELSE Append(set, t)

\* targetReducer: t is pushed unless the set holds its name, filepath and
\* targetType already
targetReducer(set, t) ==
    IF \E i \in 1..Len(set) : /\ t.name = set[i].name
                              /\ t.filepath = set[i].filepath
                              /\ t.targetType = set[i].targetType
    THEN set
    ELSE Append(set, t)

RECURSIVE reduceTargets(_, _)
reduceTargets(set, ts) ==
    IF ts = <<>> THEN set
    ELSE reduceTargets(targetReducer(set, Head(ts)), Tail(ts))

\* get uniqueTargets: this.targets.reduce(targetReducer, [])
uniqueTargets(cm, currentBuildType) == reduceTargets(<<>>, targets(cm, currentBuildType))

\* ------------------------------------------------------------------- state
VARIABLES
    clients,                 \* ClientIds -> "none" | "starting" | "live" | "stopping" | "dead"
    nClients,                \* clients created so far
    proms,                   \* PromIds -> the async task behind a pending _cmsClient promise
    cmsClient,               \* _cmsClient: a Ref to a client or null
    clientChangeInProgress,  \* _clientChangeInProgress: a Ref
    ops,                     \* OpIds -> a driver operation in flight
    nCalls,                  \* operations called so far
    hadConfigurationChanged, \* _hadConfigurationChanged
    cmakeInputFileSet,       \* _cmakeInputFileSet, tagged with the configure it derives from
    cacheEntries,            \* _cacheEntries, tagged likewise and with the reply
                             \* it was built from and the errors reported for it
    codeModel,               \* codeModel, tagged likewise
    globalSettings,          \* _globalSettings: the client it was fetched from, 0 if unset
    generator,               \* whether this.generator is set
    disk,                    \* what the build directory holds: [gen, fix]
    nGen,                    \* successful configure requests so far
    fs,                      \* Paths -> mtime, 0 for a missing file
    nTouch,                  \* file changes so far
    expansions,              \* binaryDir, sourceDir, the configure environment, and
                             \* _prevConfigureEnv
    subs,                    \* live onMessage subscriptions made by doConfigure
    lastDone,                \* the operation that returned in the last step, if any
    lastCheck,               \* the checkNeedsReconfigure call of the last step, if any
    kitChanged,              \* a kit or preset change has completed and no configure
                             \* called after it has returned 0 since
    stopped,                 \* onStop has completed, with nothing in flight but what was
                             \* called while it waited for the shutdown to finish, and
                             \* no operation was called since
    configuredOnce,          \* some doConfigure, not show-command-only, has returned 0
    settingsChanged,         \* doConfigureSettingsChange has run and no doConfigure
                             \* has returned 0 since
    lastTargets              \* the targets or uniqueTargets read of the last step, if any

driverVars == <<hadConfigurationChanged, cmakeInputFileSet, cacheEntries, codeModel,
                globalSettings, subs>>
clientVars == <<clients, nClients, proms, cmsClient>>
envVars    == <<generator, disk, nGen, fs, nTouch, expansions>>
histVars   == <<kitChanged, stopped, configuredOnce, settingsChanged>>
vars == <<clients, nClients, proms, cmsClient, clientChangeInProgress, ops, nCalls,
          hadConfigurationChanged, cmakeInputFileSet, cacheEntries, codeModel,
          globalSettings, generator, disk, nGen, fs, nTouch, expansions, subs, lastDone,
          lastCheck,
          kitChanged, stopped, configuredOnce, settingsChanged, lastTargets>>

IdleOp ==
    [kind |-> "idle", pc |-> "idle", aw |-> Resolved(0), cl |-> 0, viable |-> FALSE,
     flag |-> FALSE, ri |-> [gen |-> 0, fix |-> 0], rc |-> [gen |-> 0, fix |-> 0],
     \* history of the call, read by the properties only
     sentTo |-> {}, kitDuring |-> FALSE, pend |-> {}, acted |-> FALSE,
     restarted |-> FALSE, quiet |-> FALSE, validated |-> FALSE, started |-> {},
     noGen |-> FALSE, afterFailure |-> FALSE, inStopWait |-> FALSE, found |-> "none",
     oldc |-> 0, base |-> 0, cbRuns |-> 0,
     fired |-> <<>>,          \* the payloads of the onCodeModelChanged events it fired
     refreshSent |-> FALSE,   \* it has sent a request of _refreshPostConfigure
     lateChange |-> FALSE,    \* the settings changed after it sent its configure request
     \* doRefreshExpansions: its locals, and what its callback did
     bindir_before |-> "", srcdir_before |-> "", new_env |-> "", cbChanged |-> FALSE,
     restartedExp |-> FALSE,
     whilePending |-> {}]     \* the kinds of the restarts in flight when it was called

IdleProm ==
    [kind |-> "none", pc |-> "none", old |-> Resolved(0), oldc |-> 0, c |-> 0,
     owner |-> 0, by |-> 0, repl |-> Resolved(0)]

NoDone  == [kind |-> "none", ret |-> 0, err |-> "none", serverError |-> FALSE,
            failedReq |-> FALSE, quiet |-> FALSE, flag |-> FALSE, acted |-> FALSE,
            started |-> {}, noGen |-> FALSE, afterFailure |-> FALSE,
            cl |-> 0, oldc |-> 0, base |-> 0, cbRuns |-> 0, fired |-> <<>>,
            refreshSent |-> FALSE, lateChange |-> FALSE,
            bindir_before |-> "", srcdir_before |-> "", cbChanged |-> FALSE,
            restartedExp |-> FALSE, whilePending |-> {},
            ri |-> [gen |-> 0, fix |-> 0], rc |-> [gen |-> 0, fix |-> 0],
            rm |-> [gen |-> 0, fix |-> 0]]
NoCheck == [called |-> FALSE, res |-> FALSE, changed |-> FALSE, nFiles |-> 0,
            outOfDate |-> FALSE, afterConfigure |-> FALSE, nReported |-> 0,
            afterKit |-> FALSE, afterSettings |-> FALSE, afterLateChange |-> FALSE,
            ret |-> 0]

NoTargets == [getter |-> "none", currentBuildType |-> "", targets |-> <<>>, unique |-> <<>>]

NullCodeModel == [configurations |-> <<>>]

\* The state after construction, but for the code model
InitButCodeModel ==
    /\ clients = [c \in ClientIds |-> "none"]
    /\ nClients = 0
    /\ proms = [p \in PromIds |-> IdleProm]
    /\ cmsClient = Resolved(0)
    /\ clientChangeInProgress = Resolved(0)
    /\ ops = [o \in OpIds |-> IdleOp]
    /\ nCalls = 0
    /\ hadConfigurationChanged = TRUE
    /\ cmakeInputFileSet = [gen |-> 0, inputFiles |-> InputFileSetCreateEmpty]
    /\ cacheEntries = [gen |-> 0, fix |-> 0, entries |-> <<>>, reported |-> <<>>]
    /\ globalSettings = 0
    /\ generator = TRUE
    /\ disk = [gen |-> 0, fix |-> 0]
    /\ nGen = 0
    /\ fs = [p \in Paths |-> IF p = "CMakeLists.txt" THEN 1 ELSE 0]
    /\ nTouch = 0
    /\ expansions = [binaryDir |-> "", sourceDir |-> "", env |-> "e1",
                     prevConfigureEnv |-> "null"]
    /\ subs = 0
    /\ lastDone = NoDone
    /\ lastCheck = NoCheck
    /\ kitChanged = FALSE
    /\ stopped = FALSE
    /\ configuredOnce = FALSE
    /\ settingsChanged = FALSE
    /\ lastTargets = NoTargets

Init ==
    /\ InitButCodeModel
    /\ codeModel = [gen |-> 0, fix |-> 0, isNull |-> TRUE, content |-> NullCodeModel]

\* ----------------------------------------------------------------- helpers
Active(o)   == ops[o].kind # "idle"
FreeOp(o)   == /\ ~Active(o)
               /\ \A x \in OpIds : x < o => Active(x)
FreeProm(p) == /\ proms[p].kind = "none"
               /\ \A x \in PromIds : x < p => proms[x].kind # "none"
IsRestartOp(o) == ops[o].kind \in {"setKit", "envRestart"}

\* A reference r after promise p settled as s / operation o settled as s.
Subst(r, p, s)   == IF r = PendingOn(p) THEN s ELSE r
SubstOp(r, o, s) == IF r = PendingOp(o) THEN s ELSE r

\* client.shutdownAsync(): a no-op on a client already shut down
shutdownAsync(cls, c) ==
    IF c # 0 /\ cls[c] = "live" THEN [cls EXCEPT ![c] = "stopping"] ELSE cls

\* The getters of the driver
cmakeFiles == [i \in 1..Len(cmakeInputFileSet.inputFiles) |->
                  cmakeInputFileSet.inputFiles[i].filePath]

\* checkNeedsReconfigure as it would be without the test for no input files
checkNeedsReconfigure_noEmptyTest(changed, inputFiles, fsys) ==
    IF changed THEN changed
    ELSE checkOutOfDate(inputFiles, fsys)

\* checkNeedsReconfigure as it would be with the dirty check negated
checkNeedsReconfigure_negatedDirty(changed, inputFiles, fsys) ==
    IF changed THEN changed
    ELSE IF Len(inputFiles) = 0 THEN TRUE
    ELSE ~checkOutOfDate(inputFiles, fsys)

\* checkNeedsReconfigure
checkNeedsReconfigure(changed, inputFiles, fsys) ==
    IF changed THEN changed
    ELSE IF Len(inputFiles) = 0 THEN TRUE
    ELSE checkOutOfDate(inputFiles, fsys)

\* The operation in slot o goes on as rec / returns.  ret is the value
\* returned (0 also stands for void and true), or -1 when err was thrown.
Cont(o, rec) ==
    /\ ops' = [ops EXCEPT ![o] = rec]
    /\ lastDone' = NoDone
    /\ lastCheck' = NoCheck /\ lastTargets' = NoTargets
    /\ UNCHANGED <<clientChangeInProgress, nCalls, histVars>>

Done(o, fin, ret, err, serverError, failedReq, rm) ==
    LET out == IF err = "none" THEN Resolved(0) ELSE Rejected(err)
        \* a configure called after every kit change requested so far has returned 0
        configured == /\ fin.kind = "configure" /\ ~fin.flag /\ ~fin.kitDuring
                      /\ err = "none" /\ ret = 0
    IN
    /\ ops' = [x \in OpIds |->
                 IF x = o THEN IdleOp
                 ELSE [ops[x] EXCEPT !.aw = SubstOp(@, o, out), !.pend = @ \ {o},
                                     !.validated = @ \/ configured]]
    /\ kitChanged' = IF configured THEN FALSE
                     ELSE IF fin.kind = "setKit" /\ err = "none" /\ ~fin.validated THEN TRUE
                     ELSE kitChanged
    /\ configuredOnce' = (configuredOnce \/ configured)
    /\ settingsChanged' = (settingsChanged /\ ~(fin.kind = "configure" /\ err = "none" /\ ret = 0))
    /\ stopped' = \/ stopped
                   \/ /\ fin.kind = "stop" /\ err = "none"
                      /\ \A x \in OpIds \ {o} : Active(x) => ops[x].inStopWait
    /\ clientChangeInProgress' = SubstOp(clientChangeInProgress, o, out)
    /\ lastDone' = [kind |-> fin.kind, ret |-> ret, err |-> err,
                    serverError |-> serverError, failedReq |-> failedReq,
                    quiet |-> fin.quiet, flag |-> fin.flag, acted |-> fin.acted,
                    started |-> fin.started, noGen |-> fin.noGen,
                    afterFailure |-> fin.afterFailure,
                    cl |-> fin.cl, oldc |-> fin.oldc, base |-> fin.base,
                    cbRuns |-> fin.cbRuns, fired |-> fin.fired,
                    refreshSent |-> fin.refreshSent, lateChange |-> fin.lateChange,
                    bindir_before |-> fin.bindir_before,
                    srcdir_before |-> fin.srcdir_before,
                    cbChanged |-> fin.cbChanged, restartedExp |-> fin.restartedExp,
                    whilePending |-> fin.whilePending,
                    ri |-> fin.ri, rc |-> fin.rc, rm |-> rm]
    /\ lastCheck' = NoCheck /\ lastTargets' = NoTargets
    /\ UNCHANGED nCalls

NoReply == [gen |-> 0, fix |-> 0]

Throw(o, err) == Done(o, ops[o], -1, err, FALSE, FALSE, NoReply)

\* A call of a driver method takes the first free slot; it ends the quiet
\* run of every operation already in flight.  afterFailure: it is called
\* with nothing in flight, after a client start has failed (the stored
\* promise is rejected), and a generator is there.
NewOp(kind, pc, aw, flag) ==
    LET alone == /\ \A x \in OpIds : ~Active(x)
                 /\ \A p \in PromIds : proms[p].kind = "none"
    IN
    [IdleOp EXCEPT !.kind = kind, !.pc = pc, !.aw = aw, !.flag = flag,
                   !.quiet = alone,
                   !.afterFailure = alone /\ cmsClient.t = "err" /\ generator,
                   \* it is called while onStop waits for the shutdown to finish
                   !.inStopWait = \E x \in OpIds : ops[x].pc = "st_sd"]

Disturbed(f) == [x \in OpIds |-> [f[x] EXCEPT !.quiet = FALSE]]

Call(o, rec) ==
    /\ FreeOp(o)
    /\ nCalls' = nCalls + 1
    /\ ops' = [Disturbed(ops) EXCEPT ![o] = rec]
    /\ lastDone' = NoDone
    /\ lastCheck' = NoCheck /\ lastTargets' = NoTargets
    /\ stopped' = FALSE
    /\ UNCHANGED <<kitChanged, configuredOnce, settingsChanged>>

\* ------------------------------------------------------- calls of the driver
\* doConfigure up to `await this._clientChangeInProgress`
doConfigure(o, showCommandOnly) ==
    /\ Call(o, [NewOp("configure", "cfg_wait", clientChangeInProgress, showCommandOnly)
                  EXCEPT !.pend = {r \in OpIds : IsRestartOp(r) /\ ~ops[r].restarted},
                         !.whilePending = {ops[r].kind : r \in {x \in OpIds : IsRestartOp(x)}}])
    /\ UNCHANGED <<clientVars, clientChangeInProgress, driverVars, envVars>>

\* doPostBuild -> _refreshPostConfigure -> getClient up to its first await
doPostBuild(o) ==
    /\ Call(o, NewOp("postBuild", "rf_gc1", cmsClient, FALSE))
    /\ UNCHANGED <<clientVars, clientChangeInProgress, driverVars, envVars>>

\* _setKitAndRestart up to `await this._cmsClient`; its promise becomes
\* _clientChangeInProgress
setKitAndRestart(o, need_clean) ==
    /\ FreeOp(o)
    /\ nCalls' = nCalls + 1
    /\ ops' = [x \in OpIds |->
                 IF x = o
                 THEN [NewOp("setKit", "sk_await", cmsClient, need_clean)
                         EXCEPT !.pend = {r \in OpIds : IsRestartOp(r)}]
                 ELSE [ops[x] EXCEPT !.quiet = FALSE,
                                     !.kitDuring = @ \/ ops[x].kind = "configure"]]
    /\ cmakeInputFileSet' = [gen |-> 0, inputFiles |-> InputFileSetCreateEmpty]
    /\ clientChangeInProgress' = PendingOp(o)
    /\ lastDone' = NoDone
    /\ lastCheck' = NoCheck /\ lastTargets' = NoTargets
    /\ stopped' = FALSE
    /\ UNCHANGED <<kitChanged, configuredOnce, settingsChanged>>
    /\ UNCHANGED <<clientVars, hadConfigurationChanged, cacheEntries, codeModel,
                   globalSettings, subs, envVars>>

doSetKit(o) == setKitAndRestart(o, FALSE)

doSetConfigurePreset(o, need_clean) == setKitAndRestart(o, need_clean)

\* doSetBuildPreset as it would be if it went the way of a kit change and
\* emptied the input file set
doSetBuildPreset_invalidating(o) ==
    /\ Call(o, [NewOp("buildPreset", "bp_cb", Resolved(0), FALSE) EXCEPT !.cbRuns = 1])
    /\ cmakeInputFileSet' = [gen |-> 0, inputFiles |-> InputFileSetCreateEmpty]
    /\ UNCHANGED <<clientVars, clientChangeInProgress, hadConfigurationChanged,
                   cacheEntries, codeModel, globalSettings, subs, envVars>>

\* doSetBuildPreset: `return cb()`, the callback is called
doSetBuildPreset(o) ==
    /\ Call(o, [NewOp("buildPreset", "bp_cb", Resolved(0), FALSE) EXCEPT !.cbRuns = 1])
    /\ UNCHANGED <<clientVars, clientChangeInProgress, driverVars, envVars>>

\* doSetTestPreset: `return cb()`, the callback is called
doSetTestPreset(o) ==
    /\ Call(o, [NewOp("testPreset", "bp_cb", Resolved(0), FALSE) EXCEPT !.cbRuns = 1])
    /\ UNCHANGED <<clientVars, clientChangeInProgress, driverVars, envVars>>

\* The promise of the callback, which is the promise doSetBuildPreset or
\* doSetTestPreset returned, resolves
presetCallback_done(o) ==
    /\ ops[o].pc = "bp_cb"
    /\ Done(o, ops[o], 0, "none", FALSE, FALSE, NoReply)
    /\ UNCHANGED <<clientVars, driverVars, envVars>>

\* _restartClient up to the first await of getClient: _doRestartClient has
\* read the old _cmsClient, and its promise is the new _cmsClient.
restartClient(p, o) ==
    /\ FreeProm(p)
    /\ proms' = [proms EXCEPT ![p] =
                   [IdleProm EXCEPT !.kind = "restart", !.pc = "r_await",
                                    !.old = cmsClient, !.owner = o, !.by = o,
                                    !.repl = cmsClient]]
    /\ cmsClient' = PendingOn(p)

\* The onChange handlers of 'environment' and 'configureEnvironment'
environmentChange(o, p) ==
    /\ restartClient(p, o)
    /\ Call(o, [NewOp("envRestart", "rs_gc1", PendingOn(p), FALSE)
                  EXCEPT !.pend = {r \in OpIds : IsRestartOp(r)}, !.base = nClients])
    /\ UNCHANGED <<clients, nClients, clientChangeInProgress, driverVars, envVars>>

\* doPreCleanConfigure up to `await this._cmsClient`
doPreCleanConfigure(o) ==
    /\ Call(o, NewOp("preClean", "pc_await", cmsClient, FALSE))
    /\ UNCHANGED <<clientVars, clientChangeInProgress, driverVars, envVars>>

\* onStop up to `await this._cmsClient`
onStop(o) ==
    /\ Call(o, NewOp("stop", "st_await", cmsClient, FALSE))
    /\ UNCHANGED <<clientVars, clientChangeInProgress, driverVars, envVars>>

\* The configure request of doConfigure o has been sent and o has not
\* returned.
ConfigureSent(o) ==
    /\ ops[o].kind = "configure"
    /\ ops[o].pc \in {"cfg_configure", "cfg_compute", "rf_gc1", "rf_gc2", "rf_inputs",
                      "rf_create", "rf_cache", "rf_codemodel"}

\* doConfigureSettingsChange as it would be if a change during a doConfigure
\* were taken as covered by it
doConfigureSettingsChange_unlessConfiguring ==
    /\ hadConfigurationChanged' =
          (hadConfigurationChanged \/ ~\E o \in OpIds : ConfigureSent(o))
    /\ ops' = [x \in OpIds |->
                 [ops[x] EXCEPT !.quiet = FALSE, !.lateChange = @ \/ ConfigureSent(x)]]
    /\ lastDone' = NoDone
    /\ lastCheck' = NoCheck /\ lastTargets' = NoTargets
    /\ settingsChanged' = TRUE
    /\ UNCHANGED <<clientVars, clientChangeInProgress, nCalls, cmakeInputFileSet,
                   cacheEntries, codeModel, globalSettings, subs, envVars,
                   kitChanged, stopped, configuredOnce>>

\* doConfigureSettingsChange
doConfigureSettingsChange ==
    /\ hadConfigurationChanged' = TRUE
    /\ ops' = [x \in OpIds |->
                 [ops[x] EXCEPT !.quiet = FALSE, !.lateChange = @ \/ ConfigureSent(x)]]
    /\ lastDone' = NoDone
    /\ lastCheck' = NoCheck /\ lastTargets' = NoTargets
    /\ settingsChanged' = TRUE
    /\ UNCHANGED <<clientVars, clientChangeInProgress, nCalls, cmakeInputFileSet,
                   cacheEntries, codeModel, globalSettings, subs, envVars,
                   kitChanged, stopped, configuredOnce>>

\* ------------------------------------------------------------ the event loop
\* A continuation that is ready to run: the promise it awaits is settled.
\* (A continuation that needs a promise slot waits for one to be free.)
HasFreeProm == \E p \in PromIds : proms[p].kind = "none"

OpReady(o) ==
    \/ /\ ops[o].pc \in {"cfg_wait", "cfg_gc2", "rf_gc2", "rs_gc2", "sk_await", "st_await",
                          "rx_store"}
       /\ Settled(ops[o].aw)
    \/ /\ ops[o].pc = "rx_env"
       /\ HasFreeProm
    \/ /\ ops[o].pc \in {"cfg_gc1", "rf_gc1", "rs_gc1"}
       /\ Settled(ops[o].aw)
       /\ (ops[o].aw.t = "ok" /\ ops[o].aw.v = 0 /\ generator) => HasFreeProm
    \/ /\ ops[o].pc = "pc_await"
       /\ Settled(ops[o].aw)
       /\ ops[o].aw.t = "ok" => HasFreeProm
    \/ /\ ops[o].pc \in {"sk_sd", "st_sd"}
       /\ clients[ops[o].cl] = "dead"

PromReady(p) ==
    \/ proms[p].pc = "r_await" /\ Settled(proms[p].old)
    \/ proms[p].pc = "sd" /\ clients[proms[p].oldc] = "dead"

\* The microtask queue is empty: the event loop may deliver an I/O event.
Quiescent ==
    /\ \A o \in OpIds : ~OpReady(o)
    /\ \A p \in PromIds : ~PromReady(p)

\* ------------------------------------------------------------------ getClient
AfterGetClient1(pc) ==
    CASE pc = "cfg_gc1" -> "cfg_gc2"
      [] pc = "rf_gc1"  -> "rf_gc2"
      [] pc = "rs_gc1"  -> "rs_gc2"

\* What the getClient of doConfigure finds stored: no client, a live
\* client, or a client whose shutdown has begun.
Found(o) ==
    IF ops[o].pc # "cfg_gc1" THEN ops[o].found
    ELSE IF ops[o].aw.v = 0 THEN "absent"
    ELSE IF clients[ops[o].aw.v] = "live" THEN "live"
    ELSE "down"

\* getClient as it would be if it started a client whatever is stored
getClient_await_alwaysStart(o) ==
    /\ ops[o].pc \in {"cfg_gc1", "rf_gc1", "rs_gc1"}
    /\ Settled(ops[o].aw)
    /\ \/ /\ ops[o].aw.t = "err"
          /\ Throw(o, ops[o].aw.e)
          /\ UNCHANGED <<proms, cmsClient>>
       \/ /\ ops[o].aw.t = "ok" /\ ~generator
          /\ cmsClient' = Rejected("NoGeneratorError")
          /\ Cont(o, [ops[o] EXCEPT !.pc = AfterGetClient1(@),
                                    !.aw = Rejected("NoGeneratorError"),
                                    !.found = Found(o)])
          /\ UNCHANGED proms
       \/ /\ ops[o].aw.t = "ok" /\ generator
          /\ \E p \in PromIds :
               /\ FreeProm(p)
               /\ proms' = [proms EXCEPT ![p] =
                              [IdleProm EXCEPT !.kind = "start", !.pc = "env", !.by = o,
                                               !.repl = cmsClient]]
               /\ cmsClient' = PendingOn(p)
               /\ Cont(o, [ops[o] EXCEPT !.pc = AfterGetClient1(@), !.aw = PendingOn(p),
                                         !.found = Found(o)])
    /\ UNCHANGED <<clients, nClients, driverVars, envVars>>

\* `if (!(await this._cmsClient)) this._cmsClient = this._startNewClient();`
\* up to `await this._cmsClient`
getClient_await(o) ==
    /\ ops[o].pc \in {"cfg_gc1", "rf_gc1", "rs_gc1"}
    /\ Settled(ops[o].aw)
    /\ \/ /\ ops[o].aw.t = "err"
          /\ Throw(o, ops[o].aw.e)
          /\ UNCHANGED <<proms, cmsClient>>
       \/ /\ ops[o].aw.t = "ok" /\ ops[o].aw.v # 0
          /\ Cont(o, [ops[o] EXCEPT !.pc = AfterGetClient1(@), !.aw = cmsClient,
                                    !.found = Found(o)])
          /\ UNCHANGED <<proms, cmsClient>>
       \/ /\ ops[o].aw.t = "ok" /\ ops[o].aw.v = 0 /\ ~generator
          \* _startNewClient throws at once: its promise is rejected
          /\ cmsClient' = Rejected("NoGeneratorError")
          /\ Cont(o, [ops[o] EXCEPT !.pc = AfterGetClient1(@),
                                    !.aw = Rejected("NoGeneratorError"),
                                    !.found = Found(o)])
          /\ UNCHANGED proms
       \/ /\ ops[o].aw.t = "ok" /\ ops[o].aw.v = 0 /\ generator
          /\ \E p \in PromIds :
               /\ FreeProm(p)
               /\ proms' = [proms EXCEPT ![p] =
                              [IdleProm EXCEPT !.kind = "start", !.pc = "env", !.by = o,
                                               !.repl = cmsClient]]
               /\ cmsClient' = PendingOn(p)
               /\ Cont(o, [ops[o] EXCEPT !.pc = AfterGetClient1(@), !.aw = PendingOn(p),
                                         !.found = Found(o)])
    /\ UNCHANGED <<clients, nClients, driverVars, envVars>>

\* `const client_started = await this._cmsClient;` settled with no client
getClient_throw(o) ==
    /\ ops[o].pc \in {"cfg_gc2", "rf_gc2", "rs_gc2"}
    /\ Settled(ops[o].aw)
    /\ \/ ops[o].aw.t = "err" /\ Throw(o, ops[o].aw.e)
       \/ ops[o].aw.t = "ok" /\ ops[o].aw.v = 0 /\ Throw(o, "UnableToStart")
    /\ UNCHANGED <<clientVars, driverVars, envVars>>

\* The client getClient returned
GotClient(o) ==
    /\ Settled(ops[o].aw)
    /\ ops[o].aw.t = "ok"
    /\ ops[o].aw.v # 0

\* client.<request>(): the operation now waits for the reply of client c.
\* A request sent to a client whose shutdown has begun is never answered.
Request(rec, pc, c) ==
    [rec EXCEPT !.pc = pc, !.cl = c, !.viable = (clients[c] = "live"),
                !.sentTo = @ \cup {c}]

\* ------------------------------------------------------ the server's replies
\* The reply to the request operation o waits for.  A client answers (with
\* a result or a ServerError) until its shutdown is over; the requests still
\* pending when the connection goes fail with a connection error.
Outcomes == {"ok", "ServerError", "ConnectionError"}

CanReply(o, outcome) ==
    /\ Quiescent
    /\ IF outcome = "ConnectionError"
       THEN clients[ops[o].cl] \in {"stopping", "dead"}
       ELSE ops[o].viable /\ clients[ops[o].cl] \in {"live", "stopping"}

\* The request failed and the operation throws the error.
RequestThrows(o, outcome) ==
    Done(o, ops[o], -1, outcome, outcome = "ServerError", TRUE, NoReply)

ServerInputs(d)    == ServerProjects[d.fix].inputs
ServerCache(d)     == ServerProjects[d.fix].cache
ServerCodeModel(d) == ServerProjects[d.fix].codemodel

\* ---------------------------------------------------------------- doConfigure
\* `await this._clientChangeInProgress` is over: getClient up to its first await
doConfigure_getClient(o) ==
    /\ ops[o].pc = "cfg_wait"
    /\ Settled(ops[o].aw)
    /\ IF ops[o].aw.t = "err"
       THEN Throw(o, ops[o].aw.e)
       ELSE Cont(o, [ops[o] EXCEPT !.pc = "cfg_gc1", !.aw = cmsClient])
    /\ UNCHANGED <<clientVars, driverVars, envVars>>

\* From `const sub = this.onMessage(...)` to `await cl.configure(...)`, or
\* to `return 0` in show-command-only mode
doConfigure_configure(o) ==
    /\ ops[o].pc = "cfg_gc2"
    /\ GotClient(o)
    /\ subs' = subs + 1
    /\ IF ops[o].flag
       THEN /\ Done(o, ops[o], 0, "none", FALSE, FALSE, NoReply)
            /\ UNCHANGED hadConfigurationChanged
       ELSE /\ hadConfigurationChanged' = FALSE
            /\ Cont(o, [Request(ops[o], "cfg_configure", ops[o].aw.v) EXCEPT !.acted = TRUE])
    /\ UNCHANGED <<clientVars, cmakeInputFileSet, cacheEntries, codeModel, globalSettings,
                   envVars>>

\* The catch and finally of doConfigure: `return 1` on a ServerError, rethrow
\* of anything else, the subscription disposed
doConfigure_catch(o, outcome) ==
    /\ subs' = subs - 1
    /\ IF outcome = "ServerError"
       THEN Done(o, ops[o], 1, "none", TRUE, TRUE, NoReply)
       ELSE Done(o, ops[o], -1, outcome, FALSE, TRUE, NoReply)

\* The reply to configure; on success `await cl.compute()`
doConfigure_configured(o, outcome, fix) ==
    /\ ops[o].pc = "cfg_configure"
    /\ CanReply(o, outcome)
    /\ IF outcome = "ok"
       THEN /\ nGen < MaxGen
            /\ nGen' = nGen + 1
            /\ disk' = [gen |-> nGen + 1, fix |-> fix]
            /\ Cont(o, Request(ops[o], "cfg_compute", ops[o].cl))
            /\ UNCHANGED subs
       ELSE /\ fix = 1
            /\ doConfigure_catch(o, outcome)
            /\ UNCHANGED <<nGen, disk>>
    /\ UNCHANGED <<clientVars, hadConfigurationChanged, cmakeInputFileSet, cacheEntries,
                   codeModel, globalSettings, generator, fs, nTouch, expansions>>

\* doConfigure_computed as it would be if a ServerError of compute dropped
\* the code model
doConfigure_computed_dropping(o, outcome) ==
    /\ ops[o].pc = "cfg_compute"
    /\ CanReply(o, outcome)
    /\ IF outcome = "ok"
       THEN /\ subs' = subs - 1
            /\ Cont(o, [ops[o] EXCEPT !.pc = "rf_gc1", !.aw = cmsClient])
            /\ UNCHANGED codeModel
       ELSE /\ doConfigure_catch(o, outcome)
            /\ codeModel' = IF outcome = "ServerError"
                            THEN [gen |-> 0, fix |-> 0, isNull |-> TRUE,
                                  content |-> NullCodeModel]
                            ELSE codeModel
    /\ UNCHANGED <<clientVars, hadConfigurationChanged, cmakeInputFileSet, cacheEntries,
                   globalSettings, envVars>>

\* The reply to compute; on success the subscription is disposed and
\* _refreshPostConfigure runs getClient up to its first await
doConfigure_computed(o, outcome) ==
    /\ ops[o].pc = "cfg_compute"
    /\ CanReply(o, outcome)
    /\ IF outcome = "ok"
       THEN /\ subs' = subs - 1
            /\ Cont(o, [ops[o] EXCEPT !.pc = "rf_gc1", !.aw = cmsClient])
       ELSE doConfigure_catch(o, outcome)
    /\ UNCHANGED <<clientVars, hadConfigurationChanged, cmakeInputFileSet, cacheEntries,
                   codeModel, globalSettings, envVars>>

\* ------------------------------------------------------ _refreshPostConfigure
\* `await client.cmakeInputs()`
refresh_cmakeInputs(o) ==
    /\ ops[o].pc = "rf_gc2"
    /\ GotClient(o)
    /\ Cont(o, [Request(ops[o], "rf_inputs", ops[o].aw.v) EXCEPT !.refreshSent = TRUE])
    /\ UNCHANGED <<clientVars, driverVars, envVars>>

\* The reply to cmakeInputs; on success `await InputFileSet.create(...)`
refresh_gotInputs(o, outcome) ==
    /\ ops[o].pc = "rf_inputs"
    /\ CanReply(o, outcome)
    /\ IF outcome = "ok"
       THEN /\ disk.fix # 0
            /\ Cont(o, [ops[o] EXCEPT !.pc = "rf_create", !.ri = disk])
       ELSE RequestThrows(o, outcome)
    /\ UNCHANGED <<clientVars, driverVars, envVars>>

\* The files are scanned: `this._cmakeInputFileSet = ...`, then
\* `await client.getCMakeCacheContent()`
refresh_storeInputs(o) ==
    /\ ops[o].pc = "rf_create"
    /\ Quiescent
    /\ cmakeInputFileSet' = [gen |-> ops[o].ri.gen,
                             inputFiles |-> InputFileSetCreate(ServerInputs(ops[o].ri), fs)]
    /\ Cont(o, Request(ops[o], "rf_cache", ops[o].cl))
    /\ UNCHANGED <<clientVars, hadConfigurationChanged, cacheEntries, codeModel,
                   globalSettings, subs, envVars>>

\* refresh_storeCache as it would be if the reduce started from the map the
\* driver holds
refresh_storeCache_patching(o, outcome) ==
    /\ ops[o].pc = "rf_cache"
    /\ CanReply(o, outcome)
    /\ IF outcome = "ok"
       THEN /\ disk.fix # 0
            /\ cacheEntries' = [gen |-> disk.gen, fix |-> disk.fix,
                                entries |-> cacheReduce(cacheEntries.entries, ServerCache(disk)),
                                reported |-> cacheErrors(ServerCache(disk))]
            /\ Cont(o, [Request(ops[o], "rf_codemodel", ops[o].cl) EXCEPT !.rc = disk])
       ELSE /\ RequestThrows(o, outcome)
            /\ UNCHANGED cacheEntries
    /\ UNCHANGED <<clientVars, hadConfigurationChanged, cmakeInputFileSet, codeModel,
                   globalSettings, subs, envVars>>

\* The reply to getCMakeCacheContent; on success `this._cacheEntries = ...`,
\* then `await client.codemodel()`
refresh_storeCache(o, outcome) ==
    /\ ops[o].pc = "rf_cache"
    /\ CanReply(o, outcome)
    /\ IF outcome = "ok"
       THEN /\ disk.fix # 0
            /\ cacheEntries' = [gen |-> disk.gen, fix |-> disk.fix,
                                entries |-> cacheFromReply(ServerCache(disk)),
                                reported |-> cacheErrors(ServerCache(disk))]
            /\ Cont(o, [Request(ops[o], "rf_codemodel", ops[o].cl) EXCEPT !.rc = disk])
       ELSE /\ RequestThrows(o, outcome)
            /\ UNCHANGED cacheEntries
    /\ UNCHANGED <<clientVars, hadConfigurationChanged, cmakeInputFileSet, codeModel,
                   globalSettings, subs, envVars>>

\* refresh_storeCodeModel as it would be if the event were fired before
\* the code model is stored
refresh_storeCodeModel_fireFirst(o, outcome) ==
    /\ ops[o].pc = "rf_codemodel"
    /\ CanReply(o, outcome)
    /\ IF outcome = "ok"
       THEN /\ disk.fix # 0
            /\ codeModel' = [gen |-> disk.gen, fix |-> disk.fix, isNull |-> FALSE,
                             content |-> convertServerCodeModel(ServerCodeModel(disk))]
            /\ Done(o, [ops[o] EXCEPT !.fired = Append(@, codeModel)],
                    0, "none", FALSE, FALSE, disk)
       ELSE /\ RequestThrows(o, outcome)
            /\ UNCHANGED codeModel
    /\ UNCHANGED <<clientVars, hadConfigurationChanged, cmakeInputFileSet, cacheEntries,
                   globalSettings, subs, envVars>>

\* The reply to codemodel; on success `this.codeModel = ...`, the event is
\* fired and doConfigure returns 0 (doPostBuild returns true)
refresh_storeCodeModel(o, outcome) ==
    /\ ops[o].pc = "rf_codemodel"
    /\ CanReply(o, outcome)
    /\ IF outcome = "ok"
       THEN /\ disk.fix # 0
            /\ codeModel' = [gen |-> disk.gen, fix |-> disk.fix, isNull |-> FALSE,
                             content |-> convertServerCodeModel(ServerCodeModel(disk))]
            /\ Done(o, [ops[o] EXCEPT !.fired = Append(@, codeModel')],
                    0, "none", FALSE, FALSE, disk)
       ELSE /\ RequestThrows(o, outcome)
            /\ UNCHANGED codeModel
    /\ UNCHANGED <<clientVars, hadConfigurationChanged, cmakeInputFileSet, cacheEntries,
                   globalSettings, subs, envVars>>

\* --------------------------------------------------- settling a client promise
\* Promise p settles as s: every reference to it now holds s.  With it the
\* restart of the operation that owns p has its new client (or has failed).
Settle(p, s) ==
    LET owner == proms[p].owner IN
    /\ proms' = [x \in PromIds |->
                   IF x = p THEN IdleProm
                   ELSE [proms[x] EXCEPT !.old = Subst(@, p, s), !.repl = Subst(@, p, s)]]
    /\ cmsClient' = Subst(cmsClient, p, s)
    /\ ops' = [x \in OpIds |->
                 [ops[x] EXCEPT !.aw = Subst(@, p, s),
                                !.restarted = @ \/ x = owner,
                                !.pend = IF ops[x].kind = "configure" THEN @ \ {owner} ELSE @]]
    /\ lastDone' = NoDone
    /\ lastCheck' = NoCheck /\ lastTargets' = NoTargets
    /\ UNCHANGED <<clientChangeInProgress, nCalls, histVars>>

\* A step of the task behind promise p that leaves it pending; c is the
\* client it starts, 0 if none: the operation that called for the start has
\* started c.  The operation that restarts the client knows the old client
\* once _doRestartClient has it.
PromCont(p, rec, acts, c) ==
    /\ proms' = [proms EXCEPT ![p] = rec]
    /\ ops' = [x \in OpIds |->
                 [ops[x] EXCEPT !.acted = @ \/ (acts /\ x = proms[p].owner),
                                !.oldc = IF x = proms[p].owner /\ rec.kind = "restart"
                                         THEN rec.oldc ELSE @,
                                !.started = IF c # 0 /\ x = proms[p].by
                                            THEN @ \cup {c} ELSE @]]
    /\ lastDone' = NoDone
    /\ lastCheck' = NoCheck /\ lastTargets' = NoTargets
    /\ UNCHANGED <<cmsClient, clientChangeInProgress, nCalls, histVars>>

\* _startNewClient up to `await this.getConfigureEnvironment()`
startNewClient(p, acts) ==
    IF generator
    THEN PromCont(p, [proms[p] EXCEPT !.pc = "env"], acts, 0)
    ELSE Settle(p, Rejected("NoGeneratorError"))

\* CMakeServerClient.start(...) is called: a new server process
startNewClient_start(p) ==
    /\ proms[p].pc = "env"
    /\ nClients < MaxClients
    /\ nClients' = nClients + 1
    /\ clients' = [clients EXCEPT ![nClients + 1] = "starting"]
    /\ PromCont(p, [proms[p] EXCEPT !.pc = "start", !.c = nClients + 1], TRUE, nClients + 1)
    /\ UNCHANGED <<driverVars, envVars>>

\* The start is over: the client is live, or the start failed
clientStarted(p, started) ==
    /\ proms[p].pc = "start"
    /\ Quiescent
    /\ clients' = [clients EXCEPT ![proms[p].c] = IF started THEN "live" ELSE "dead"]
    /\ Settle(p, IF started THEN Resolved(proms[p].c) ELSE Rejected("StartupError"))
    /\ UNCHANGED <<nClients, driverVars, envVars>>

\* The shutdown of client c is over
clientShutDown(c) ==
    /\ clients[c] = "stopping"
    /\ Quiescent
    /\ clients' = [clients EXCEPT ![c] = "dead"]
    /\ lastDone' = NoDone
    /\ lastCheck' = NoCheck /\ lastTargets' = NoTargets
    /\ UNCHANGED <<nClients, proms, cmsClient, clientChangeInProgress, ops, nCalls,
                   driverVars, envVars, histVars>>

\* ------------------------------------------------------------ _doRestartClient
\* _doRestartClient as it would be without the shutdown of the old client
doRestartClient_noShutdown(p) ==
    /\ proms[p].pc = "r_await"
    /\ Settled(proms[p].old)
    /\ IF proms[p].old.t = "err"
       THEN Settle(p, Rejected(proms[p].old.e))
       ELSE IF generator
       THEN PromCont(p, [proms[p] EXCEPT !.pc = "env", !.oldc = proms[p].old.v], FALSE, 0)
       ELSE Settle(p, Rejected("NoGeneratorError"))
    /\ UNCHANGED <<clients, nClients, driverVars, envVars>>

\* `const old_client = await this._cmsClient` is over: shut the old client
\* down, or start the new one at once when there is none
doRestartClient_shutdown(p) ==
    /\ proms[p].pc = "r_await"
    /\ Settled(proms[p].old)
    /\ IF proms[p].old.t = "err"
       THEN Settle(p, Rejected(proms[p].old.e)) /\ UNCHANGED clients
       ELSE IF proms[p].old.v = 0
       THEN startNewClient(p, FALSE) /\ UNCHANGED clients
       ELSE /\ clients' = shutdownAsync(clients, proms[p].old.v)
            /\ PromCont(p, [proms[p] EXCEPT !.pc = "sd", !.oldc = proms[p].old.v], TRUE, 0)
    /\ UNCHANGED <<nClients, driverVars, envVars>>

\* `await old_client.shutdownAsync()` is over, in _doRestartClient (then
\* _startNewClient) and in doPreCleanConfigure (then _cleanPriorConfiguration)
oldClientShutDown(p) ==
    /\ proms[p].pc = "sd"
    /\ clients[proms[p].oldc] = "dead"
    /\ IF proms[p].kind = "preClean"
       THEN PromCont(p, [proms[p] EXCEPT !.pc = "clean"], FALSE, 0)
       ELSE startNewClient(p, FALSE)
    /\ UNCHANGED <<clients, nClients, driverVars, envVars>>

\* ------------------------------------------------------------ _restartClient
\* `await client.getGlobalSettings()`
restartClient_getGlobalSettings(o) ==
    /\ ops[o].pc = "rs_gc2"
    /\ GotClient(o)
    /\ Cont(o, Request(ops[o], "rs_gs", ops[o].aw.v))
    /\ UNCHANGED <<clientVars, driverVars, envVars>>

\* The reply to getGlobalSettings: `this._globalSettings = ...`
restartClient_done(o, outcome) ==
    /\ ops[o].pc = "rs_gs"
    /\ CanReply(o, outcome)
    /\ IF outcome = "ok"
       THEN /\ globalSettings' = ops[o].cl
            /\ IF ops[o].kind = "refreshExp"
               THEN Cont(o, [ops[o] EXCEPT !.pc = "rx_store", !.aw = Resolved(0)])
               ELSE Done(o, ops[o], 0, "none", FALSE, FALSE, NoReply)
       ELSE /\ RequestThrows(o, outcome)
            /\ UNCHANGED globalSettings
    /\ UNCHANGED <<clientVars, hadConfigurationChanged, cmakeInputFileSet, cacheEntries,
                   codeModel, subs, envVars>>

\* --------------------------------------------------------- doRefreshExpansions
\* The values of binaryDir, sourceDir and the configure environment
BinaryDirs == {"", "b1", "b2"}
SourceDirs == {"", "s1"}
Envs       == {"e1", "e2"}

\* JSON.stringify of a configure environment
stringify(env) ==
    CASE env = "e1" -> "{e1}"
      [] env = "e2" -> "{e2}"

\* doRefreshExpansions up to `await cb()`
doRefreshExpansions(o) ==
    /\ Call(o, [NewOp("refreshExp", "rx_cb", Resolved(0), FALSE)
                  EXCEPT !.bindir_before = expansions.binaryDir,
                         !.srcdir_before = expansions.sourceDir])
    /\ UNCHANGED <<clientVars, clientChangeInProgress, driverVars, envVars>>

\* `await cb()` is over: the callback has left the binary directory b, the
\* source directory s and the configure environment e.  Then the return
\* when a directory was empty, or `await this.getConfigureEnvironment()`
refreshExpansions_callback(o, b, s, e) ==
    LET rec == [ops[o] EXCEPT !.cbChanged = \/ b # expansions.binaryDir
                                            \/ s # expansions.sourceDir
                                            \/ e # expansions.env]
    IN
    /\ ops[o].pc = "rx_cb"
    /\ expansions' = [expansions EXCEPT !.binaryDir = b, !.sourceDir = s, !.env = e]
    /\ IF ops[o].bindir_before = "" \/ ops[o].srcdir_before = ""
       THEN Done(o, rec, 0, "none", FALSE, FALSE, NoReply)
       ELSE Cont(o, [rec EXCEPT !.pc = "rx_env", !.new_env = stringify(e)])
    /\ UNCHANGED <<clientVars, driverVars, generator, disk, nGen, fs, nTouch>>

\* The comparison of line 246: `await this._restartClient()` up to the
\* first await of getClient, or `this._prevConfigureEnv = new_env`
refreshExpansions_compare(o) ==
    /\ ops[o].pc = "rx_env"
    /\ IF \/ ops[o].bindir_before # expansions.binaryDir
          \/ ops[o].srcdir_before # expansions.sourceDir
          \/ ops[o].new_env # expansions.prevConfigureEnv
       THEN /\ \E p \in PromIds :
                 /\ restartClient(p, o)
                 /\ Cont(o, [ops[o] EXCEPT !.pc = "rs_gc1", !.aw = PendingOn(p),
                                           !.restartedExp = TRUE])
            /\ UNCHANGED expansions
       ELSE /\ expansions' = [expansions EXCEPT !.prevConfigureEnv = ops[o].new_env]
            /\ Done(o, ops[o], 0, "none", FALSE, FALSE, NoReply)
            /\ UNCHANGED <<proms, cmsClient>>
    /\ UNCHANGED <<clients, nClients, driverVars, generator, disk, nGen, fs, nTouch>>

\* `await this._restartClient()` is over: `this._prevConfigureEnv = new_env`
refreshExpansions_store(o) ==
    /\ ops[o].pc = "rx_store"
    /\ expansions' = [expansions EXCEPT !.prevConfigureEnv = ops[o].new_env]
    /\ Done(o, ops[o], 0, "none", FALSE, FALSE, NoReply)
    /\ UNCHANGED <<clientVars, driverVars, generator, disk, nGen, fs, nTouch>>

\* ----------------------------------------------------------- _setKitAndRestart
\* What follows the shutdown of the old client: _cleanPriorConfiguration when
\* need_clean, else the callback
AfterShutdown(rec) ==
    IF rec.flag THEN [rec EXCEPT !.pc = "sk_clean", !.acted = TRUE]
    ELSE [rec EXCEPT !.pc = "sk_cb", !.acted = TRUE]

\* `const client = await this._cmsClient` is over: `client.shutdownAsync()`
setKit_shutdown(o) ==
    /\ ops[o].pc = "sk_await"
    /\ Settled(ops[o].aw)
    /\ IF ops[o].aw.t = "err"
       THEN Throw(o, ops[o].aw.e) /\ UNCHANGED clients
       ELSE IF ops[o].aw.v = 0
       THEN Cont(o, AfterShutdown(ops[o])) /\ UNCHANGED clients
       ELSE /\ clients' = shutdownAsync(clients, ops[o].aw.v)
            /\ Cont(o, [ops[o] EXCEPT !.pc = "sk_sd", !.cl = ops[o].aw.v, !.acted = TRUE])
    /\ UNCHANGED <<nClients, proms, cmsClient, driverVars, envVars>>

\* `await client.shutdownAsync()` is over
setKit_shutDown(o) ==
    /\ ops[o].pc = "sk_sd"
    /\ clients[ops[o].cl] = "dead"
    /\ Cont(o, AfterShutdown(ops[o]))
    /\ UNCHANGED <<clientVars, driverVars, envVars>>

\* `await this._cleanPriorConfiguration()` is over: the callback is called
setKit_cleaned(o) ==
    /\ ops[o].pc = "sk_clean"
    /\ disk' = [gen |-> 0, fix |-> 0]
    /\ Cont(o, [ops[o] EXCEPT !.pc = "sk_cb"])
    /\ UNCHANGED <<clientVars, driverVars, generator, nGen, fs, nTouch, expansions>>

\* setKit_restart as it would be without `if (!this.generator) throw ...`
setKit_restart_noCheck(o, gen) ==
    /\ ops[o].pc = "sk_cb"
    /\ generator' = gen
    /\ \E p \in PromIds :
         /\ restartClient(p, o)
         /\ Cont(o, [ops[o] EXCEPT !.pc = "rs_gc1", !.aw = PendingOn(p), !.noGen = ~gen])
    /\ UNCHANGED <<clients, nClients, driverVars, disk, nGen, fs, nTouch, expansions>>

\* setKit_restart as it would be if, with no generator, it waited for one
\* instead of throwing
setKit_restart_waiting(o, gen) ==
    /\ ops[o].pc = "sk_cb"
    /\ generator' = gen
    /\ IF gen
       THEN \E p \in PromIds :
              /\ restartClient(p, o)
              /\ Cont(o, [ops[o] EXCEPT !.pc = "rs_gc1", !.aw = PendingOn(p)])
       ELSE /\ Cont(o, [ops[o] EXCEPT !.pc = "sk_generator", !.noGen = TRUE])
            /\ UNCHANGED <<proms, cmsClient>>
    /\ UNCHANGED <<clients, nClients, driverVars, disk, nGen, fs, nTouch, expansions>>

\* `await cb()` is over: the callback has set the kit or preset, which
\* leaves a generator or none; then NoGeneratorError, or _restartClient up to
\* the first await of getClient
setKit_restart(o, gen) ==
    /\ ops[o].pc = "sk_cb"
    /\ generator' = gen
    /\ IF gen
       THEN \E p \in PromIds :
              /\ restartClient(p, o)
              /\ Cont(o, [ops[o] EXCEPT !.pc = "rs_gc1", !.aw = PendingOn(p)])
       ELSE /\ Done(o, [ops[o] EXCEPT !.noGen = TRUE], -1, "NoGeneratorError",
                    FALSE, FALSE, NoReply)
            /\ UNCHANGED <<proms, cmsClient>>
    /\ UNCHANGED <<clients, nClients, driverVars, disk, nGen, fs, nTouch, expansions>>

\* --------------------------------------------------------- doPreCleanConfigure
\* `const old_cl = await this._cmsClient` is over: the new _cmsClient is the
\* promise of the function that shuts old_cl down, cleans and starts a client
doPreCleanConfigure_restart(o) ==
    /\ ops[o].pc = "pc_await"
    /\ Settled(ops[o].aw)
    /\ IF ops[o].aw.t = "err"
       THEN /\ Throw(o, ops[o].aw.e)
            /\ UNCHANGED <<clients, proms, cmsClient>>
       ELSE \E p \in PromIds :
              /\ FreeProm(p)
              /\ clients' = shutdownAsync(clients, ops[o].aw.v)
              /\ proms' = [proms EXCEPT ![p] =
                             [IdleProm EXCEPT !.kind = "preClean",
                                              !.pc = IF ops[o].aw.v = 0 THEN "clean" ELSE "sd",
                                              !.oldc = ops[o].aw.v,
                                              !.repl = cmsClient]]
              /\ cmsClient' = PendingOn(p)
              /\ Done(o, ops[o], 0, "none", FALSE, FALSE, NoReply)
    /\ UNCHANGED <<nClients, driverVars, envVars>>

\* `await this._cleanPriorConfiguration()` is over: _startNewClient
preClean_cleaned(p) ==
    /\ proms[p].pc = "clean"
    /\ disk' = [gen |-> 0, fix |-> 0]
    /\ startNewClient(p, FALSE)
    /\ UNCHANGED <<clients, nClients, driverVars, generator, nGen, fs, nTouch, expansions>>

\* ----------------------------------------------------------------------- onStop
\* `const client = await this._cmsClient` is over: `client.shutdownAsync()`
onStop_shutdown(o) ==
    /\ ops[o].pc = "st_await"
    /\ Settled(ops[o].aw)
    /\ IF ops[o].aw.t = "err"
       THEN Throw(o, ops[o].aw.e) /\ UNCHANGED clients
       ELSE IF ops[o].aw.v = 0
       THEN Done(o, ops[o], 0, "none", FALSE, FALSE, NoReply) /\ UNCHANGED clients
       ELSE /\ clients' = shutdownAsync(clients, ops[o].aw.v)
            /\ Cont(o, [ops[o] EXCEPT !.pc = "st_sd", !.cl = ops[o].aw.v])
    /\ UNCHANGED <<nClients, proms, cmsClient, driverVars, envVars>>

\* `await client.shutdownAsync()` is over: `this._cmsClient = Promise.resolve(null)`
onStop_drop(o) ==
    /\ ops[o].pc = "st_sd"
    /\ clients[ops[o].cl] = "dead"
    /\ cmsClient' = Resolved(0)
    /\ Done(o, ops[o], 0, "none", FALSE, FALSE, NoReply)
    /\ UNCHANGED <<clients, nClients, proms, driverVars, envVars>>

\* -------------------------------------------------------- checkNeedsReconfigure
\* One call of checkNeedsReconfigure, with what it read
checkNeedsReconfigure_call ==
    LET after == /\ lastDone.kind = "configure"
                 /\ lastDone.ret = 0
                 /\ lastDone.quiet
                 /\ ~lastDone.flag
    IN
    /\ lastCheck' = [called |-> TRUE,
                     res |-> checkNeedsReconfigure(hadConfigurationChanged,
                                                   cmakeInputFileSet.inputFiles, fs),
                     changed |-> hadConfigurationChanged,
                     nFiles |-> Len(cmakeInputFileSet.inputFiles),
                     outOfDate |-> checkOutOfDate(cmakeInputFileSet.inputFiles, fs),
                     afterConfigure |-> after,
                     nReported |-> IF after THEN Len(ServerInputs(lastDone.ri)) ELSE 0,
                     afterKit |-> kitChanged, afterSettings |-> settingsChanged,
                     afterLateChange |-> lastDone.kind = "configure" /\ lastDone.lateChange,
                     ret |-> lastDone.ret]
    /\ lastDone' = NoDone
    /\ lastTargets' = NoTargets
    /\ UNCHANGED <<clientVars, clientChangeInProgress, ops, nCalls, driverVars, envVars,
                   histVars>>

\* ------------------------------------------------------------ the target views
\* One read of the targets getter
targets_get(currentBuildType) ==
    /\ lastTargets' = [getter |-> "targets", currentBuildType |-> currentBuildType,
                       targets |-> targets(codeModel, currentBuildType),
                       unique |-> <<>>]
    /\ lastDone' = NoDone
    /\ lastCheck' = NoCheck
    /\ UNCHANGED <<clientVars, clientChangeInProgress, ops, nCalls, driverVars, envVars,
                   histVars>>

\* One read of the uniqueTargets getter, with the targets it reduces
uniqueTargets_get(currentBuildType) ==
    /\ lastTargets' = [getter |-> "uniqueTargets", currentBuildType |-> currentBuildType,
                       targets |-> targets(codeModel, currentBuildType),
                       unique |-> uniqueTargets(codeModel, currentBuildType)]
    /\ lastDone' = NoDone
    /\ lastCheck' = NoCheck
    /\ UNCHANGED <<clientVars, clientChangeInProgress, ops, nCalls, driverVars, envVars,
                   histVars>>

\* ----------------------------------------------------------------- the files
\* A tracked file is written, created or deleted by someone
touchFile(path, mtime) ==
    /\ nTouch < MaxTouch
    /\ mtime # fs[path]
    /\ fs' = [fs EXCEPT ![path] = mtime]
    /\ nTouch' = nTouch + 1
    /\ ops' = Disturbed(ops)
    /\ lastDone' = NoDone
    /\ lastCheck' = NoCheck /\ lastTargets' = NoTargets
    /\ UNCHANGED <<clientVars, clientChangeInProgress, nCalls, driverVars, generator,
                   disk, nGen, expansions, histVars>>

\* ------------------------------------------------------------- specification
\* Any two calls of the driver, interleaved in every way, with the settings
\* and the files changing under them.
Next ==
    \/ \E o \in OpIds, b \in BOOLEAN : nCalls < MaxCalls /\ doConfigure(o, b)
    \/ \E o \in OpIds : nCalls < MaxCalls /\ doPostBuild(o)
    \/ \E o \in OpIds : nCalls < MaxCalls /\ doSetKit(o)
    \/ \E o \in OpIds, b \in BOOLEAN : nCalls < MaxCalls /\ doSetConfigurePreset(o, b)
    \/ \E o \in OpIds, p \in PromIds : nCalls < MaxCalls /\ environmentChange(o, p)
    \/ \E o \in OpIds : nCalls < MaxCalls /\ doPreCleanConfigure(o)
    \/ \E o \in OpIds : nCalls < MaxCalls /\ onStop(o)
    \/ \E o \in OpIds : nCalls < MaxCalls /\ doSetBuildPreset(o)
    \/ \E o \in OpIds : nCalls < MaxCalls /\ doSetTestPreset(o)
    \/ \E o \in OpIds : presetCallback_done(o)
    \/ doConfigureSettingsChange
    \/ checkNeedsReconfigure_call
    \/ \E path \in Paths, m \in 0..MaxMtime : touchFile(path, m)
    \/ \E o \in OpIds : getClient_await(o)
    \/ \E o \in OpIds : getClient_throw(o)
    \/ \E o \in OpIds : doConfigure_getClient(o)
    \/ \E o \in OpIds : doConfigure_configure(o)
    \/ \E o \in OpIds, r \in Outcomes, f \in Fixtures : doConfigure_configured(o, r, f)
    \/ \E o \in OpIds, r \in Outcomes : doConfigure_computed(o, r)
    \/ \E o \in OpIds : refresh_cmakeInputs(o)
    \/ \E o \in OpIds, r \in Outcomes : refresh_gotInputs(o, r)
    \/ \E o \in OpIds : refresh_storeInputs(o)
    \/ \E o \in OpIds, r \in Outcomes : refresh_storeCache(o, r)
    \/ \E o \in OpIds, r \in Outcomes : refresh_storeCodeModel(o, r)
    \/ \E o \in OpIds : restartClient_getGlobalSettings(o)
    \/ \E o \in OpIds, r \in Outcomes : restartClient_done(o, r)
    \/ \E o \in OpIds : setKit_shutdown(o)
    \/ \E o \in OpIds : setKit_shutDown(o)
    \/ \E o \in OpIds : setKit_cleaned(o)
    \/ \E o \in OpIds, g \in BOOLEAN : setKit_restart(o, g)
    \/ \E o \in OpIds : doPreCleanConfigure_restart(o)
    \/ \E o \in OpIds : onStop_shutdown(o)
    \/ \E o \in OpIds : onStop_drop(o)
    \/ \E p \in PromIds : doRestartClient_shutdown(p)
    \/ \E p \in PromIds : oldClientShutDown(p)
    \/ \E p \in PromIds : preClean_cleaned(p)
    \/ \E p \in PromIds : startNewClient_start(p)
    \/ \E p \in PromIds, b \in BOOLEAN : clientStarted(p, b)
    \/ \E c \in ClientIds : clientShutDown(c)

Spec == Init /\ [][Next]_vars

\* Kit changes and configures only, three of them, interleaved in every way.
NextKit ==
    \/ \E o \in OpIds : nCalls < MaxKitCalls /\ doConfigure(o, FALSE)
    \/ \E o \in OpIds : nCalls < MaxKitCalls /\ doSetKit(o)
    \/ \E o \in OpIds : getClient_await(o)
    \/ \E o \in OpIds : getClient_throw(o)
    \/ \E o \in OpIds : doConfigure_getClient(o)
    \/ \E o \in OpIds : doConfigure_configure(o)
    \/ \E o \in OpIds, r \in Outcomes, f \in Fixtures : doConfigure_configured(o, r, f)
    \/ \E o \in OpIds, r \in Outcomes : doConfigure_computed(o, r)
    \/ \E o \in OpIds : refresh_cmakeInputs(o)
    \/ \E o \in OpIds, r \in Outcomes : refresh_gotInputs(o, r)
    \/ \E o \in OpIds : refresh_storeInputs(o)
    \/ \E o \in OpIds, r \in Outcomes : refresh_storeCache(o, r)
    \/ \E o \in OpIds, r \in Outcomes : refresh_storeCodeModel(o, r)
    \/ \E o \in OpIds : restartClient_getGlobalSettings(o)
    \/ \E o \in OpIds, r \in Outcomes : restartClient_done(o, r)
    \/ \E o \in OpIds : setKit_shutdown(o)
    \/ \E o \in OpIds : setKit_shutDown(o)
    \/ \E o \in OpIds, g \in BOOLEAN : setKit_restart(o, g)
    \/ \E p \in PromIds : doRestartClient_shutdown(p)
    \/ \E p \in PromIds : oldClientShutDown(p)
    \/ \E p \in PromIds : startNewClient_start(p)
    \/ \E p \in PromIds, b \in BOOLEAN : clientStarted(p, b)
    \/ \E c \in ClientIds : clientShutDown(c)

SpecKit == Init /\ [][NextKit]_vars

\* Configures and post-build refreshes one after the other: a call is made
\* only when no operation is in flight.
NextSeq ==
    \/ \E b \in BOOLEAN : nCalls < MaxSeqCalls /\ doConfigure(1, b)
    \/ nCalls < MaxSeqCalls /\ doPostBuild(1)
    \/ doConfigureSettingsChange
    \/ checkNeedsReconfigure_call
    \/ \E path \in Paths, m \in 0..MaxMtime : touchFile(path, m)
    \/ getClient_await(1)
    \/ getClient_throw(1)
    \/ doConfigure_getClient(1)
    \/ doConfigure_configure(1)
    \/ \E r \in Outcomes, f \in Fixtures : doConfigure_configured(1, r, f)
    \/ \E r \in Outcomes : doConfigure_computed(1, r)
    \/ refresh_cmakeInputs(1)
    \/ \E r \in Outcomes : refresh_gotInputs(1, r)
    \/ refresh_storeInputs(1)
    \/ \E r \in Outcomes : refresh_storeCache(1, r)
    \/ \E r \in Outcomes : refresh_storeCodeModel(1, r)
    \/ \E p \in PromIds : startNewClient_start(p)
    \/ \E p \in PromIds, b \in BOOLEAN : clientStarted(p, b)

SpecSeq == Init /\ [][NextSeq]_vars

\* Environment changes and onStop only, three of them, interleaved in every way.
NextStop ==
    \/ \E o \in OpIds, p \in PromIds : nCalls < MaxStopCalls /\ environmentChange(o, p)
    \/ \E o \in OpIds : nCalls < MaxStopCalls /\ onStop(o)
    \/ \E o \in OpIds : getClient_await(o)
    \/ \E o \in OpIds : getClient_throw(o)
    \/ \E o \in OpIds : restartClient_getGlobalSettings(o)
    \/ \E o \in OpIds, r \in Outcomes : restartClient_done(o, r)
    \/ \E o \in OpIds : onStop_shutdown(o)
    \/ \E o \in OpIds : onStop_drop(o)
    \/ \E p \in PromIds : doRestartClient_shutdown(p)
    \/ \E p \in PromIds : oldClientShutDown(p)
    \/ \E p \in PromIds : startNewClient_start(p)
    \/ \E p \in PromIds, b \in BOOLEAN : clientStarted(p, b)
    \/ \E c \in ClientIds : clientShutDown(c)

SpecStop == Init /\ [][NextStop]_vars

\* doRefreshExpansions only, three calls, interleaved in every way.
NextExp ==
    \/ \E o \in OpIds : nCalls < MaxExpCalls /\ doRefreshExpansions(o)
    \/ \E o \in OpIds, b \in BinaryDirs, s \in SourceDirs, e \in Envs :
          refreshExpansions_callback(o, b, s, e)
    \/ \E o \in OpIds : refreshExpansions_compare(o)
    \/ \E o \in OpIds : refreshExpansions_store(o)
    \/ \E o \in OpIds : getClient_await(o)
    \/ \E o \in OpIds : getClient_throw(o)
    \/ \E o \in OpIds : restartClient_getGlobalSettings(o)
    \/ \E o \in OpIds, r \in Outcomes : restartClient_done(o, r)
    \/ \E p \in PromIds : doRestartClient_shutdown(p)
    \/ \E p \in PromIds : oldClientShutDown(p)
    \/ \E p \in PromIds : startNewClient_start(p)
    \/ \E p \in PromIds, b \in BOOLEAN : clientStarted(p, b)
    \/ \E c \in ClientIds : clientShutDown(c)

SpecExp == Init /\ [][NextExp]_vars

\* doConfigure and doPostBuild one at a time as in SpecSeq, and the target
\* views read at any moment with any current build type.
NextSeqView ==
    \/ NextSeq
    \/ \E bt \in BuildTypes : targets_get(bt)
    \/ \E bt \in BuildTypes : uniqueTargets_get(bt)

SpecSeqView == Init /\ [][NextSeqView]_vars

\* The target views as functions of the code model: a driver that holds the
\* translation of any of TargetModels, and the views read of it.
InitTargets ==
    /\ InitButCodeModel
    /\ \E m \in TargetModels :
          codeModel = [gen |-> 0, fix |-> 0, isNull |-> FALSE,
                       content |-> convertServerCodeModel(m)]

NextTargets ==
    \/ \E bt \in BuildTypes : targets_get(bt)
    \/ \E bt \in BuildTypes : uniqueTargets_get(bt)

SpecTargets == InitTargets /\ [][NextTargets]_vars

\* The steps the event loop takes by itself: the continuations whose promise
\* has settled, the replies of the server, and the ends of the starts and
\* shutdowns of clients.
LiveSteps ==
    \/ \E o \in OpIds : getClient_await(o)
    \/ \E o \in OpIds : getClient_throw(o)
    \/ \E o \in OpIds : doConfigure_getClient(o)
    \/ \E o \in OpIds : doConfigure_configure(o)
    \/ \E o \in OpIds, r \in Outcomes, f \in Fixtures : doConfigure_configured(o, r, f)
    \/ \E o \in OpIds, r \in Outcomes : doConfigure_computed(o, r)
    \/ \E o \in OpIds : refresh_cmakeInputs(o)
    \/ \E o \in OpIds, r \in Outcomes : refresh_gotInputs(o, r)
    \/ \E o \in OpIds : refresh_storeInputs(o)
    \/ \E o \in OpIds, r \in Outcomes : refresh_storeCache(o, r)
    \/ \E o \in OpIds, r \in Outcomes : refresh_storeCodeModel(o, r)
    \/ \E o \in OpIds : restartClient_getGlobalSettings(o)
    \/ \E o \in OpIds, r \in Outcomes : restartClient_done(o, r)
    \/ \E o \in OpIds : setKit_shutdown(o)
    \/ \E o \in OpIds : setKit_shutDown(o)
    \/ \E o \in OpIds, g \in BOOLEAN : setKit_restart(o, g)
    \/ \E p \in PromIds : doRestartClient_shutdown(p)
    \/ \E p \in PromIds : oldClientShutDown(p)
    \/ \E p \in PromIds : startNewClient_start(p)
    \/ \E p \in PromIds, b \in BOOLEAN : clientStarted(p, b)
    \/ \E c \in ClientIds : clientShutDown(c)

\* Configures, kit changes and environment changes, two of them interleaved in
\* every way, and then a doConfigure called while a kit change or a restart is
\* in flight.  The event loop runs a continuation that is ready, the server
\* answers or fails every request, and every start and shutdown of a client
\* comes to an end: whenever one of these steps can be taken, one is taken.
NextLive ==
    \/ \E o \in OpIds, b \in BOOLEAN : nCalls < MaxLiveCalls /\ doConfigure(o, b)
    \/ \E o \in OpIds : nCalls < MaxLiveCalls /\ doSetKit(o)
    \/ \E o \in OpIds, p \in PromIds : nCalls < MaxLiveCalls /\ environmentChange(o, p)
    \/ \E o \in OpIds :
          /\ nCalls = MaxLiveCalls
          /\ \E r \in OpIds : IsRestartOp(r)
          /\ doConfigure(o, FALSE)
    \/ LiveSteps

SpecLive == Init /\ [][NextLive]_vars /\ WF_vars(LiveSteps)

\* ================================================================== claims
\* The clients whose start is over and whose shutdown has not been asked for.
LiveClients == {c \in ClientIds : clients[c] = "live"}

\* C1: in every reachable state at most one server client has been started
\* and not yet shut down.  Only the clients whose start is over and whose
\* shutdown has not even been asked for are counted here.
C1_AtMostOneLiveClient == Cardinality(LiveClients) <= 1

\* C2: when a kit change is issued while a doConfigure is in flight, every
\* request of that doConfigure goes to one and the same client.
C2_OneConnectionPerConfigure ==
    \A o \in OpIds :
        (ops[o].kind = "configure" /\ ops[o].kitDuring) => Cardinality(ops[o].sentTo) <= 1

\* C3: a restart-requiring operation requested while an earlier one is in
\* flight performs none of its steps (shutdown, cleaning, callback, start of a
\* client) before the earlier one has finished.
C3_RestartsAreSerialized ==
    \A o \in OpIds : (IsRestartOp(o) /\ ops[o].acted) => ops[o].pend = {}

\* C4: a doConfigure issued while a restart is pending acquires no client
\* (and so sends no request) before that restart has its new client or has
\* failed.
C4_ConfigureWaitsForRestart ==
    \A o \in OpIds : (ops[o].kind = "configure" /\ ops[o].acted) => ops[o].pend = {}

\* C5: in every restart the start of the new client begins only after the
\* shutdown of the client stored before is over.  Only a stored promise that
\* has resolved with a client is looked at here.
C5_StartAfterShutdown ==
    \A p \in PromIds :
        (/\ proms[p].kind \in {"restart", "preClean"}
         /\ proms[p].pc \in {"env", "start"}
         /\ proms[p].repl.t = "ok"
         /\ proms[p].repl.v # 0) => clients[proms[p].repl.v] = "dead"

\* C6: the input file set, the cache and the code model a reader sees all
\* derive from the same configure.  What no configure produced (the empty
\* initial values, the file set emptied by a kit change) is not counted.
C6_SnapshotsFromOneConfigure ==
    Cardinality({cmakeInputFileSet.gen, cacheEntries.gen, codeModel.gen} \ {0}) <= 1

\* C7: a doConfigure that got a ServerError for one of its requests returns
\* a non-zero exit code and does not throw.
C7_ServerErrorGivesExitCode ==
    (lastDone.kind = "configure" /\ lastDone.serverError) => lastDone.ret > 0

\* The type tags entry_map knows.
KnownTypes == {"BOOL", "STRING", "PATH", "FILEPATH", "INTERNAL", "UNINITIALIZED", "STATIC"}

\* entries holds, once per key, the entries of raw that have a known type,
\* with the value of the last such entry of the key, and nothing else.
CacheHolds(entries, raw) ==
    /\ \A i \in 1..Len(raw) :
          raw[i].type \in KnownTypes => \E j \in 1..Len(entries) : entries[j].key = raw[i].key
    /\ \A j \in 1..Len(entries) :
          \E i \in 1..Len(raw) :
             /\ raw[i].key = entries[j].key
             /\ raw[i].type \in KnownTypes
             /\ raw[i].value = entries[j].value
             /\ \A k \in (i + 1)..Len(raw) :
                   ~(raw[k].key = raw[i].key /\ raw[k].type \in KnownTypes)
    /\ \A j, k \in 1..Len(entries) : entries[j].key = entries[k].key => j = k

\* The operation that has just returned is a doConfigure, not in
\* show-command-only mode, that ran alone (no other operation in flight when
\* it was called, no call, settings change or file change since) and had
\* every request it sent answered without an error.
AnsweredConfigure ==
    /\ lastDone.kind = "configure"
    /\ ~lastDone.flag
    /\ lastDone.quiet
    /\ lastDone.acted
    /\ ~lastDone.failedReq

C9_NeedsReconfigureIsDisjunction ==
    lastCheck.called =>
        lastCheck.res = (lastCheck.changed \/ lastCheck.nFiles = 0 \/ lastCheck.outOfDate)

\* checkNeedsReconfigure has returned true because no input file is recorded.
C9_Witness ==
    /\ lastCheck.called
    /\ ~lastCheck.changed
    /\ lastCheck.nFiles = 0
    /\ lastCheck.res

\* C10 as stated: right after a doConfigure that ran alone (no other call, no
\* settings change and no file change since it was called) and returned 0,
\* checkNeedsReconfigure returns false, whatever input files were reported.
C10_NoReconfigureAfterConfigure ==
    lastCheck.afterConfigure => ~lastCheck.res

\* C10 amended: the same, for every non-empty list of input files.
C10_NoReconfigureAfterConfigureWithInputs ==
    (lastCheck.afterConfigure /\ lastCheck.nReported > 0) => ~lastCheck.res

\* checkNeedsReconfigure has returned false right after such a doConfigure
\* whose server reported input files.
C10_Witness ==
    /\ lastCheck.afterConfigure
    /\ lastCheck.nReported > 0
    /\ ~lastCheck.res

\* C11: once a kit or preset change has completed, checkNeedsReconfigure
\* returns true until a configure called after the change has returned 0; a
\* refresh that was in flight when the change was requested does not make it
\* return false.
C11_KitChangeInvalidates ==
    (lastCheck.called /\ lastCheck.afterKit) => lastCheck.res

\* C12: a kit or preset change whose callback leaves no generator fails
\* with NoGeneratorError, and that operation starts no client.
C12_NoGeneratorNoStart ==
    /\ \A o \in OpIds : ops[o].noGen => ops[o].started = {}
    /\ (lastDone.kind = "setKit" /\ lastDone.noGen) =>
           (lastDone.err = "NoGeneratorError" /\ lastDone.started = {})

\* A kit change has just failed because its callback left no generator,
\* after it had shut a client down.
C12_Witness ==
    /\ lastDone.kind = "setKit"
    /\ lastDone.noGen
    /\ lastDone.err = "NoGeneratorError"
    /\ \E c \in ClientIds : clients[c] = "dead"

\* C13: a configure or a restart called after a client start has failed
\* attempts a fresh client start.
C13_FreshStartAfterFailure ==
    (lastDone.kind \in {"configure", "envRestart", "setKit"} /\ lastDone.afterFailure) =>
        lastDone.started # {}

\* C14: after onStop has completed no client is live and no client is
\* stored, also when a restart was requested while onStop waited for the
\* shutdown to finish.
C14_StoppedMeansNoClient ==
    stopped => (LiveClients = {} /\ cmsClient = Resolved(0))

\* C15: a doConfigure that finds no client stored starts exactly one client
\* and sends its configure request to that client; one that finds a live
\* client stored starts none.
C15_ConfigureStartsOneClient ==
    \A o \in OpIds :
        (ops[o].kind = "configure" /\ ops[o].pc = "cfg_configure") =>
            /\ ops[o].found = "absent" => ops[o].started = {ops[o].cl}
            /\ ops[o].found = "live" => ops[o].started = {}

\* A doConfigure that found no client stored has sent its configure request
\* to the client it started, while another operation has started a client too.
C15_Witness ==
    \E o \in OpIds :
        /\ ops[o].kind = "configure" /\ ops[o].pc = "cfg_configure"
        /\ ops[o].found = "absent"
        /\ ops[o].started = {ops[o].cl}
        /\ nClients = 2

\* C16: while the prior configuration is being cleaned (by doPreCleanConfigure
\* or by doSetConfigurePreset with need_clean) no client is live.
C16_CleanWithNoLiveClient ==
    ((\E o \in OpIds : ops[o].pc = "sk_clean") \/ (\E p \in PromIds : proms[p].pc = "clean"))
        => LiveClients = {}

\* C17: when the restart made for a change of `environment` or
\* `configureEnvironment` completes, the old client has been shut down, the
\* restart has started a client, and the stored global settings are those
\* fetched from a client started after the change.
C17_EnvironmentChangeRestarts ==
    (lastDone.kind = "envRestart" /\ lastDone.err = "none") =>
        /\ lastDone.oldc # 0 => clients[lastDone.oldc] = "dead"
        /\ lastDone.started # {}
        /\ lastDone.cl > lastDone.base
        /\ globalSettings = lastDone.cl

\* Such a restart that replaced a client has just completed.
C17_Witness ==
    /\ lastDone.kind = "envRestart" /\ lastDone.err = "none"
    /\ lastDone.oldc # 0
    /\ clients[lastDone.cl] = "live"

\* A step of doSetBuildPreset or doSetTestPreset: the call, or its return.
PresetStep ==
    \/ \E o \in OpIds : ops[o].kind = "idle" /\ ops'[o].kind \in {"buildPreset", "testPreset"}
    \/ lastDone'.kind \in {"buildPreset", "testPreset"}

\* C18: doSetBuildPreset and doSetTestPreset run the callback exactly once,
\* and their steps shut down and start no client and leave the input file
\* set, the cache, the code model and the configuration-changed flag as
\* they are.
C18_PresetOnlyRunsCallback ==
    /\ [](lastDone.kind \in {"buildPreset", "testPreset"} => lastDone.cbRuns = 1)
    /\ [][PresetStep => UNCHANGED <<clients, nClients, proms, cmsClient, cmakeInputFileSet,
                                    cacheEntries, codeModel, hadConfigurationChanged>>]_vars

\* doSetBuildPreset has just returned on a driver that holds a client and
\* the results of a configure.
C18_Witness ==
    /\ lastDone.kind = "buildPreset"
    /\ Len(cmakeInputFileSet.inputFiles) > 0
    /\ ~codeModel.isNull
    /\ LiveClients # {}

\* The cache.Entry the reduce makes of the raw entry el.
EntryOf(el) == [key |-> el.key, value |-> el.value, type |-> entry_map(el.type)]

\* The raw entry raw[i] is dropped: whatever the cache holds under its key
\* was made of an entry of a known type; and an error naming its tag was
\* reported.
DroppedAndReported(raw, i) ==
    /\ \A j \in 1..Len(cacheEntries.entries) :
          cacheEntries.entries[j].key = raw[i].key =>
             \E k \in 1..Len(raw) : /\ raw[k].type \in KnownTypes
                                    /\ cacheEntries.entries[j] = EntryOf(raw[k])
    /\ \E r \in 1..Len(cacheEntries.reported) : cacheEntries.reported[r] = raw[i].type

\* The raw entry raw[i] is in the cache under its key, with the mapped type
\* and its value.
PresentAsMapped(raw, i) ==
    \E j \in 1..Len(cacheEntries.entries) : cacheEntries.entries[j] = EntryOf(raw[i])

\* raw[i] is the last entry of a known type of its key.
LastOfKey(raw, i) ==
    \A k \in (i + 1)..Len(raw) : ~(raw[k].key = raw[i].key /\ raw[k].type \in KnownTypes)

\* C19 as stated: after a refresh every raw entry of an unknown tag is
\* dropped and reported, and every raw entry of a known tag is in the cache
\* under its key with the mapped type and its value.
C19_EveryKnownEntryPresent ==
    cacheEntries.fix # 0 =>
        LET raw == ServerProjects[cacheEntries.fix].cache IN
        \A i \in 1..Len(raw) :
            IF raw[i].type \in KnownTypes THEN PresentAsMapped(raw, i)
            ELSE DroppedAndReported(raw, i)

\* C19: after a refresh every raw entry of an unknown tag is dropped and
\* reported, and every raw entry of a known tag that is the last such entry
\* of its key is in the cache under its key with the mapped type and its
\* value.
C19_UnknownDroppedKnownKept ==
    cacheEntries.fix # 0 =>
        LET raw == ServerProjects[cacheEntries.fix].cache IN
        \A i \in 1..Len(raw) :
            IF raw[i].type \in KnownTypes
            THEN LastOfKey(raw, i) => PresentAsMapped(raw, i)
            ELSE DroppedAndReported(raw, i)

\* The cache was built from a reply that holds an entry of an unknown tag
\* and two entries of known tags under one key.
C19_Witness ==
    /\ cacheEntries.fix = 2
    /\ cacheEntries.reported = <<"WEIRD">>
    /\ \E j \in 1..Len(cacheEntries.entries) :
          cacheEntries.entries[j] = [key |-> "FOO", value |-> "3", type |-> "Path"]

\* C20: the keys of the cache are exactly the keys of the entries of a known
\* type in the latest cache reply the driver received, each key once.
C20_CacheKeysAreLatestReply ==
    cacheEntries.fix # 0 =>
        LET raw == ServerProjects[cacheEntries.fix].cache
            e   == cacheEntries.entries
        IN
        /\ {e[j].key : j \in 1..Len(e)}
              = {raw[i].key : i \in {k \in 1..Len(raw) : raw[k].type \in KnownTypes}}
        /\ \A j, k \in 1..Len(e) : e[j].key = e[k].key => j = k

\* The cache has been rebuilt from a reply that repeats a key and lacks a
\* key of the reply before it: the code model is still the one of the
\* configure before, whose cache reply held CMAKE_GENERATOR.
C20_Witness ==
    /\ cacheEntries.fix = 2
    /\ cacheEntries.gen > codeModel.gen
    /\ ~codeModel.isNull
    /\ codeModel.content = convertServerCodeModel(ServerProjects[1].codemodel)
    /\ Len(cacheEntries.entries) = 1

\* The file groups of the server code model the stored code model was
\* translated from, each with its target and its translation: the places
\* <<configuration, project, target, group>>.
GroupPlaces(cm) ==
    {q \in (1..2) \X (1..2) \X (1..2) \X (1..2) :
        /\ q[1] <= Len(cm.configurations)
        /\ q[2] <= Len(cm.configurations[q[1]].projects)
        /\ q[3] <= Len(cm.configurations[q[1]].projects[q[2]].targets)
        /\ q[4] <= Len(cm.configurations[q[1]].projects[q[2]].targets[q[3]].fileGroups)}

TargetAt(cm, q) == cm.configurations[q[1]].projects[q[2]].targets[q[3]]

\* C21: in the stored translation, the compile-command fragments of a file
\* group are its compile flags alone when it has some (also when the target
\* has link-language flags), else the link-language flags of the target
\* alone when it has some, else none.
C21_CompileCommandFragments ==
    ~codeModel.isNull =>
        LET raw == ServerProjects[codeModel.fix].codemodel IN
        \A q \in GroupPlaces(raw) :
            LET t == TargetAt(raw, q)
                g == t.fileGroups[q[4]]
                f == TargetAt(codeModel.content, q).fileGroups[q[4]].compileCommandFragments
            IN
            /\ g.compileFlags # "" => f = <<g.compileFlags>>
            /\ (g.compileFlags = "" /\ t.linkLanguageFlags # "") => f = <<t.linkLanguageFlags>>
            /\ (g.compileFlags = "" /\ t.linkLanguageFlags = "") => f = <<>>

\* The stored translation holds a group with both kinds of flags, a group
\* with the flags of its target only, and a group with neither.
C21_Witness ==
    /\ ~codeModel.isNull
    /\ codeModel.fix = 1
    /\ LET ts == codeModel.content.configurations[1].projects[1].targets IN
       /\ ts[1].fileGroups[1].compileCommandFragments = <<"-g">>
       /\ ts[1].fileGroups[2].compileCommandFragments = <<"-O2">>
       /\ ts[2].fileGroups[1].compileCommandFragments = <<>>

\* Two rich targets have the same name, filepath and targetType.
SameTriple(a, b) ==
    a.name = b.name /\ a.filepath = b.filepath /\ a.targetType = b.targetType

\* The places of ts that hold the first occurrence of a triple.
FirstPlaces(ts) ==
    {i \in 1..Len(ts) : \A j \in 1..(i - 1) : ~SameTriple(ts[j], ts[i])}

\* C22: uniqueTargets holds no triple twice, holds every triple of targets,
\* and lists the triples in the order of their first occurrence in targets.
C22_UniqueTargets ==
    lastTargets.getter = "uniqueTargets" =>
        LET ts == lastTargets.targets
            u  == lastTargets.unique
            fp == FirstPlaces(ts)
        IN
        /\ \A i, j \in 1..Len(u) : SameTriple(u[i], u[j]) => i = j
        /\ \A i \in 1..Len(ts) : \E j \in 1..Len(u) : SameTriple(u[j], ts[i])
        /\ Len(u) = Cardinality(fp)
        /\ \A k \in 1..Len(u) :
              u[k] = ts[CHOOSE i \in fp : Cardinality({j \in fp : j <= i}) = k]

\* uniqueTargets was read of targets that hold a triple twice, not next to
\* each other, and two triples of one name.
C22_Witness ==
    /\ lastTargets.getter = "uniqueTargets"
    /\ Len(lastTargets.targets) = 4
    /\ Len(lastTargets.unique) = 3
    /\ SameTriple(lastTargets.targets[2], lastTargets.targets[4])
    /\ lastTargets.targets[3].name = lastTargets.targets[2].name
    /\ lastTargets.targets[3].targetType = "UTILITY"

\* C23: targets is empty as long as no doConfigure has returned 0, and once
\* one has, targets holds the "build all" meta-target for every code model
\* and every current build type.
C23_TargetsHoldBuildAll ==
    lastTargets.getter = "targets" =>
        IF configuredOnce
        THEN \E i \in 1..Len(lastTargets.targets) :
                /\ lastTargets.targets[i].name = allTargetName
                /\ lastTargets.targets[i].targetType = "META"
        ELSE lastTargets.targets = <<>>

\* C24: a doConfigure or doPostBuild whose refresh has completed (it stored
\* the input files, the cache and the code model) has fired
\* onCodeModelChanged once, with the code model it stored; one whose refresh
\* has not completed has fired no event.
C24_RefreshFiresOnce ==
    lastDone.kind \in {"configure", "postBuild"} =>
        IF lastDone.rm.fix # 0
        THEN /\ Len(lastDone.fired) = 1
             /\ lastDone.fired[1] = codeModel
             /\ codeModel.gen = lastDone.rm.gen
             /\ lastDone.ri.fix # 0
             /\ lastDone.rc.fix # 0
        ELSE lastDone.fired = <<>>

\* doPostBuild has returned after a refresh that replaced a code model by
\* another one.
C24_Witness ==
    /\ lastDone.kind = "postBuild"
    /\ lastDone.rm.gen = 2
    /\ Len(lastDone.fired) = 1
    /\ lastDone.fired[1].fix = 2

\* A step of a doConfigure that has not yet come to _refreshPostConfigure.
ConfigureStepBeforeRefresh ==
    \E o \in OpIds :
        /\ ops[o].kind = "configure"
        /\ ops[o].pc \in {"cfg_wait", "cfg_gc1", "cfg_gc2", "cfg_configure", "cfg_compute"}
        /\ ops'[o].pc # ops[o].pc

\* C25: a doConfigure whose configure or compute request failed with a
\* ServerError (it returns 1) has sent no refresh request, stored no input
\* file set, cache or code model and fired no event; and no step of a
\* doConfigure before its refresh changes the input file set, the cache or
\* the code model.
C25_ServerErrorLeavesResults ==
    /\ []((lastDone.kind = "configure" /\ lastDone.serverError /\ lastDone.ret = 1) =>
            /\ ~lastDone.refreshSent
            /\ lastDone.ri = NoReply /\ lastDone.rc = NoReply /\ lastDone.rm = NoReply
            /\ lastDone.fired = <<>>)
    /\ [][ConfigureStepBeforeRefresh =>
            UNCHANGED <<cmakeInputFileSet, cacheEntries, codeModel>>]_vars

\* A doConfigure has returned 1 on a driver that holds the results of an
\* earlier configure.
C25_Witness ==
    /\ lastDone.kind = "configure"
    /\ lastDone.serverError
    /\ lastDone.ret = 1
    /\ ~codeModel.isNull
    /\ Len(cmakeInputFileSet.inputFiles) > 0
    /\ Len(cacheEntries.entries) > 0

\* C26: checkNeedsReconfigure returns true when the configure settings have
\* changed and no doConfigure has returned 0 since.
C26_SettingsChangeKept ==
    (lastCheck.called /\ lastCheck.afterSettings) => lastCheck.res

C28_RestartIffCallbackChanged ==
    (lastDone.kind = "refreshExp" /\ lastDone.err = "none") =>
        (lastDone.restartedExp <=>
            /\ lastDone.bindir_before # ""
            /\ lastDone.srcdir_before # ""
            /\ lastDone.cbChanged)

\* C29: when doSetKit, doSetConfigurePreset, doPreCleanConfigure or onStop
\* has just returned or thrown and nothing else is in flight, the stored
\* client reference is settled and holds no client or a client whose
\* shutdown has not begun.
C29_StoredClientNotShutDown ==
    (/\ lastDone.kind \in {"setKit", "preClean", "stop"}
     /\ \A o \in OpIds : ops[o].kind = "idle"
     /\ \A p \in PromIds : proms[p].kind = "none") =>
        /\ Settled(cmsClient)
        /\ (cmsClient.t = "ok" /\ cmsClient.v # 0) => clients[cmsClient.v] = "live"

\* C30: when no doConfigure is in flight, no message subscription made by a
\* doConfigure is active.
C30_SubscriptionDisposed ==
    (\A o \in OpIds : ops[o].kind # "configure") => subs = 0

\* C31: every doConfigure call eventually returns an exit code (0 or 1) or
\* fails with an error, also when it is called while a kit change or a restart
\* of the client is in flight, when the server answers or fails every request,
\* every start and shutdown of a client ends and ready continuations are run.
C31_ConfigureReturns ==
    \A o \in OpIds :
       (ops[o].kind = "configure")
          ~> (/\ ops[o].kind = "idle"
              /\ lastDone.kind = "configure"
              /\ (lastDone.err # "none" \/ lastDone.ret \in {0, 1}))

\* A doConfigure called while a kit change and a restart for an environment
\* change were both in flight has returned 0.
C31_Witness ==
    /\ lastDone.kind = "configure"
    /\ lastDone.whilePending = {"setKit", "envRestart"}
    /\ lastDone.err = "none"
    /\ lastDone.ret = 0
    /\ ~lastDone.flag
====
